---------------------------- MODULE Spec2Model ----------------------------
(***************************************************************************)
(* Model of the crypto / moon-phase correlation core:                      *)
(*   MoonPhaseCalculator   (src/data_access/moon_calculator.py)            *)
(*   DataProcessor         (src/data_processor.py and the single-file      *)
(*                          copy in src/crypto_moon_dashboard.py)          *)
(*   CorrelationAnalyzer   (src/correlation_analyzer.py and the            *)
(*                          single-file copy)                              *)
(*                                                                         *)
(* Numbers.  Python floats are modelled by exact arithmetic:               *)
(*   - a datetime is an integer number of seconds since 2000-01-01 00:00,  *)
(*   - a close price is an integer,                                        *)
(*   - a price change and an average are rationals <<num, den>> in lowest  *)
(*     terms with den > 0,                                                 *)
(*   - a moon phase percentage is a two-limb integer <<hi, lo>> counting   *)
(*     units of 1/LUNAR_CYCLE of a percentage point (see Big numbers), so  *)
(*     that calculate_moon_phase is computed without rounding.             *)
(* None is the empty tuple.                                                *)
(*                                                                         *)
(* Each component is a function of its arguments and of the processor's    *)
(* stored data, so each has a specification of its own that draws the      *)
(* arguments in its initial states and applies the operations to them:     *)
(*   SpecMoon     calculate_moon_phase                                     *)
(*   SpecCombine  combine_data                                             *)
(*   SpecChanges  calculate_price_changes (both copies)                    *)
(*   SpecAnalyze  analyze_correlation (both copies), on a list as given    *)
(*                and on the list calculate_price_changes returned         *)
(*   SpecBatch    calculate_moon_phases_for_dates (both copies)            *)
(*   SpecCore     the three stages of the processor and the analyzer, each *)
(*                on its own inputs and on the empty ones of the others    *)
(*   SpecSession  one DataProcessor called again and again, combine_data   *)
(*                taken statement by statement beside a concurrent reader  *)
(*   SpecReport   generate_summary_statistics (both copies) and            *)
(*                handle_insufficient_data                                 *)
(*   SpecFetch    fetch_crypto_data of the single-file copy, source by     *)
(*                source                                                   *)
(*   SpecDashboard  st.session_state under initialisation, selection       *)
(*                changes and refreshes (both dashboards)                  *)
(*   SpecProcessor  one DataProcessor under calls of combine_data,         *)
(*                calculate_price_changes, store_data and clear_data, and  *)
(*                the lists its caller got back from it                    *)
(***************************************************************************)
EXTENDS Integers, Sequences, FiniteSets, TLC

VARIABLES
    date_arg,        \* calculate_moon_phase: the date argument (None or <<t>>)
    phase_data,      \* calculate_moon_phase: the value returned
    crypto_data,     \* combine_data: the crypto_data argument
    moon_data,       \* combine_data: the moon_data argument
    points_arg,      \* calculate_price_changes / analyze_correlation: the
                     \* combined_data argument as it was on entry
    _combined_data,  \* DataProcessor._combined_data
    _data_cache,     \* DataProcessor._data_cache (a function on its keys)
    returned,        \* the list returned by the last DataProcessor call
    results,         \* the AnalysisResults returned by the last analysis
    op,              \* the operation that produced this state
    full_moon_threshold,  \* config.analysis.full_moon_threshold
    dates,           \* calculate_moon_phases_for_dates: the dates argument
    line,            \* the line a combine_data call in progress has reached
    combined_points, \* combine_data in progress: its local combined_points
    filled,          \* _update_cache in progress: points put in the cache
    before,          \* _combined_data and _data_cache as the combine_data
                     \* in progress found them
    points_after,    \* calculate_price_changes: the list the caller passed,
                     \* as the call left it
    summary,         \* what generate_summary_statistics returned
    messages,        \* what handle_insufficient_data returned
    crypto_name,     \* fetch_crypto_data: the crypto_name argument
    limit,           \* fetch_crypto_data: the limit argument
    tried,           \* fetch_crypto_data: the sources called so far, each
                     \* with what came of it
    fetched,         \* fetch_crypto_data: None while it runs, then the list
                     \* returned or the exception raised
    session_state,   \* st.session_state of the dashboard, a dictionary
    refresh,         \* the last _handle_refresh: what the provider did,
                     \* the locals of the pipeline, whether it raised
    app,             \* which dashboard runs: "modular" (dashboard_ui.py) or
                     \* "single-file" (crypto_moon_dashboard.py)
    held,            \* the lists a caller got from the DataProcessor and
                     \* still holds, each as returned and as it is now
    observed         \* the reader's call since the writer's last statement:
                     \* what it called, what it got, and what it would have
                     \* got before and after the combine_data in progress

\* What the model held before the configuration, the batch and the
\* session with a concurrent reader were added to it.
coreVars == <<date_arg, phase_data, crypto_data, moon_data, points_arg,
              _combined_data, _data_cache, returned, results, op>>

sessionVars == <<full_moon_threshold, dates, line, combined_points, filled,
                 before, observed>>

otherVars == <<sessionVars, points_after>>

\* What the analyzer's reports and the price client add.
reportVars == <<summary, messages>>

fetchVars == <<crypto_name, limit, tried, fetched>>

dashboardVars == <<session_state, refresh, app>>

uiVars == <<reportVars, fetchVars, dashboardVars, held>>

vars == <<coreVars, otherVars, uiVars>>

\* coreVars without op.
coreData == <<date_arg, phase_data, crypto_data, moon_data, points_arg,
              _combined_data, _data_cache, returned, results>>

None == <<>>

Some(x) == <<x>>

\* An exception leaving the call.
Raised(e) == [raised |-> e]

Range(s) == {s[i] : i \in DOMAIN s}

\* Sequences over S of length at most n.
SeqsUpTo(S, n) == UNION {[1..k -> S] : k \in 0..n}

-----------------------------------------------------------------------------
(* Rationals: <<num, den>>, den > 0, gcd(num, den) = 1.                    *)

Abs(n) == IF n < 0 THEN -n ELSE n

RECURSIVE Gcd(_, _)
Gcd(a, b) == IF b = 0 THEN a ELSE Gcd(b, a % b)

Rat(n, d) ==
    LET g == Gcd(Abs(n), Abs(d))
        s == IF d < 0 THEN -1 ELSE 1
    IN  <<(s * n) \div g, (s * d) \div g>>

Zero == <<0, 1>>

RatAdd(a, b) == Rat(a[1] * b[2] + b[1] * a[2], a[2] * b[2])

RatSub(a, b) == Rat(a[1] * b[2] - b[1] * a[2], a[2] * b[2])

RatLess(a, b) == a[1] * b[2] < b[1] * a[2]

RatAbs(a) == <<Abs(a[1]), a[2]>>

RECURSIVE RatSum(_)
RatSum(s) == IF s = <<>> THEN Zero ELSE RatAdd(s[1], RatSum(Tail(s)))

-----------------------------------------------------------------------------
(* Big numbers: <<hi, lo>> stands for hi * Base + lo with 0 <= lo < Base.  *)
(* TLC's integers are 32 bits wide; the lunar cycle in units of 1e-7 s is  *)
(* not.                                                                    *)

Base == 10 ^ 7

Norm(hi, lo) == <<hi + (lo \div Base), lo % Base>>

BigAdd(a, b) == Norm(a[1] + b[1], a[2] + b[2])

BigSub(a, b) == Norm(a[1] - b[1], a[2] - b[2])

\* |k| <= 200 keeps every product inside 32 bits.
BigScale(a, k) == Norm(a[1] * k, a[2] * k)

BigLess(a, b) == a[1] < b[1] \/ (a[1] = b[1] /\ a[2] < b[2])

BigLeq(a, b) == a = b \/ BigLess(a, b)

BigZero == <<0, 0>>

BigMax(a, b) == IF BigLess(a, b) THEN b ELSE a

BigMin(a, b) == IF BigLess(b, a) THEN b ELSE a

-----------------------------------------------------------------------------
(* Time.                                                                   *)

SecondsPerDay == 24 * 3600

\* datetime(2000, 1, d, h, m, s) as seconds since 2000-01-01 00:00:00.
DateTime(d, h, m, s) == (d - 1) * SecondsPerDay + h * 3600 + m * 60 + s

\* datetime.date(): the calendar day, time of day stripped.
DateOf(t) == t \div SecondsPerDay

-----------------------------------------------------------------------------
(* MoonPhaseData and MoonPhaseCalculator.                                  *)

\* NEW_MOON_REFERENCE = datetime(2000, 1, 6, 18, 14, 0)
NEW_MOON_REFERENCE == DateTime(6, 18, 14, 0)

\* The sidereal month, 27.321661 days = 2360591.5104 s, in its place.
SIDEREAL_CYCLE == <<2360591, 5104000>>

\* LUNAR_CYCLE_DAYS = 29.530588853 days = 2551442.8768992 s, in units of
\* 1e-7 s (the divisor days / LUNAR_CYCLE_DAYS of seconds / (24 * 3600)).
LUNAR_CYCLE == <<2551442, 8768992>>

\* n percentage points as a phase value.
Pct(n) == BigScale(LUNAR_CYCLE, n)

MoonPhaseData(d, p) == [date |-> d, phase_percentage |-> p]

\* The full-moon threshold of MoonPhaseData.is_full_moon.
FULL_MOON_THRESHOLD == 98

is_full_moon(m) == BigLess(Pct(FULL_MOON_THRESHOLD), m.phase_percentage)

\* AnalysisConfig of config.py: the defaults of its fields.
AnalysisConfig ==
    [full_moon_threshold |-> 98, min_data_points_for_analysis |-> 1]

\* AppConfig.__init__: analysis.full_moon_threshold once the environment
\* variable FULL_MOON_THRESHOLD (None when unset, else <<t>>) is applied.
AppConfig(env_threshold) ==
    IF env_threshold = None
    THEN AnalysisConfig.full_moon_threshold
    ELSE env_threshold[1]

\* time_diff.total_seconds() in units of 1e-7 s.
TimeDiff(t) == <<t - NEW_MOON_REFERENCE, 0>>

\* cycles_elapsed truncated towards zero, as int() would.
FloorCyclesTrunc(diff) ==
    LET k == CHOOSE k \in -200..200 :
                 /\ BigLeq(BigScale(LUNAR_CYCLE, k), diff)
                 /\ BigLess(diff, BigScale(LUNAR_CYCLE, k + 1))
    IN  IF k < 0 THEN k + 1 ELSE k

\* math.floor(cycles_elapsed): the k with k * cycle <= diff < (k+1) * cycle.
FloorCycles(diff) ==
    CHOOSE k \in -200..200 :
        /\ BigLeq(BigScale(LUNAR_CYCLE, k), diff)
        /\ BigLess(diff, BigScale(LUNAR_CYCLE, k + 1))

\* cycle_position = cycles_elapsed - math.floor(cycles_elapsed), as the
\* numerator of a fraction over LUNAR_CYCLE.
CyclePosition(t) ==
    BigSub(TimeDiff(t), BigScale(LUNAR_CYCLE, FloorCycles(TimeDiff(t))))

\* Both halves scaled by 100 instead of 200.
RawPhaseHalved(pos) ==
    IF BigLeq(BigScale(pos, 2), LUNAR_CYCLE)
    THEN BigScale(pos, 100)
    ELSE BigScale(BigSub(LUNAR_CYCLE, pos), 100)

\* The two branches on cycle_position <= 0.5.
RawPhase(pos) ==
    IF BigLeq(BigScale(pos, 2), LUNAR_CYCLE)
    THEN BigScale(pos, 200)
    ELSE BigScale(BigSub(LUNAR_CYCLE, pos), 200)

\* max(0.0, min(100.0, phase_percentage))
Clamp(p) == BigMax(BigZero, BigMin(Pct(100), p))

\* The waning branch without the "1.0 -" and the result not clamped.
calculate_moon_phase_unclamped(date) ==
    IF date = None
    THEN None
    ELSE LET pos == CyclePosition(date[1])
         IN  MoonPhaseData(date[1], BigScale(pos, 200))

calculate_moon_phase(date) ==
    IF date = None
    THEN None   \* ValueError raised and caught: logged, None returned
    ELSE MoonPhaseData(date[1], Clamp(RawPhase(CyclePosition(date[1]))))

\* calculate_moon_phase of the single-file copy.  moon_phase is what the
\* ephem library computes for the date, a fraction given here in percent;
\* target_date.strftime on None raises AttributeError, which is logged and
\* raised again.
dash_calculate_moon_phase(target_date, moon_phase) ==
    IF target_date = None
    THEN Raised("AttributeError")
    ELSE MoonPhaseData(target_date[1], Pct(moon_phase))

\* The loop given up at the first date that fails.
RECURSIVE MoonPhasesUntilFailure(_)
MoonPhasesUntilFailure(ds) ==
    IF ds = <<>>
    THEN <<>>
    ELSE LET computed == calculate_moon_phase(Head(ds))
         IN  IF computed = None
             THEN <<>>
             ELSE <<computed>> \o MoonPhasesUntilFailure(Tail(ds))

\* calculate_moon_phases_for_dates: the dates whose record is None are
\* counted as failed and left out.
RECURSIVE MoonPhasesForDates(_)
MoonPhasesForDates(ds) ==
    IF ds = <<>>
    THEN <<>>
    ELSE LET computed == calculate_moon_phase(Head(ds))
         IN  IF computed = None
             THEN MoonPhasesForDates(Tail(ds))
             ELSE <<computed>> \o MoonPhasesForDates(Tail(ds))

\* calculate_moon_phases_for_dates of the single-file copy: a date whose
\* computation raises is logged and left out.  moon_phases[i] is what ephem
\* reports for the i-th date.
RECURSIVE DashMoonPhasesForDates(_, _)
DashMoonPhasesForDates(ds, moon_phases) ==
    IF ds = <<>>
    THEN <<>>
    ELSE LET computed == dash_calculate_moon_phase(Head(ds), Head(moon_phases))
             rest == DashMoonPhasesForDates(Tail(ds), Tail(moon_phases))
         IN  IF "raised" \in DOMAIN computed
             THEN rest
             ELSE <<computed>> \o rest

-----------------------------------------------------------------------------
(* CryptoPriceData, CombinedDataPoint and DataProcessor.                   *)
(* Of a price bar the core reads date and close_price only.  A list entry  *)
(* that is None, or whose date is None, is the entry None.                 *)

CryptoPriceData(d, c) == [date |-> d, close_price |-> c]

CombinedDataPoint(d, c, m, pc) ==
    [date |-> d, crypto_data |-> c, moon_data |-> m, price_change |-> pc]

Front(s) == SubSeq(s, 1, Len(s) - 1)

Last(s) == s[Len(s)]

\* d[k] = v on a dict held as a function.
Put(d, k, v) == [x \in DOMAIN d \cup {k} |-> IF x = k THEN v ELSE d[x]]

\* The key taken without .date(): the full datetime.
DateKeyFull(t) == t

\* x.date.date(): the dictionary key of a record.
DateKey(t) == DateOf(t)

\* A sort that puts an element before the earlier ones of its date.
RECURSIVE SortByDateUnstable(_)
SortByDateUnstable(s) ==
    IF s = <<>>
    THEN <<>>
    ELSE LET x == Last(s)
             front == SortByDateUnstable(Front(s))
             n == Cardinality({i \in DOMAIN front : front[i].date < x.date})
         IN  SubSeq(front, 1, n) \o <<x>> \o SubSeq(front, n + 1, Len(front))

\* sorted(..., key=lambda x: x.date) and list.sort(key=...): stable.
RECURSIVE SortByDate(_)
SortByDate(s) ==
    IF s = <<>>
    THEN <<>>
    ELSE LET x == Last(s)
             front == SortByDate(Front(s))
             n == Cardinality({i \in DOMAIN front : front[i].date <= x.date})
         IN  SubSeq(front, 1, n) \o <<x>> \o SubSeq(front, n + 1, Len(front))

\* A lookup in which the first record of a date stays.
RECURSIVE MoonLookupFirstWins(_)
MoonLookupFirstWins(md) ==
    IF md = <<>>
    THEN <<>>
    ELSE LET m == Head(md)
             rest == MoonLookupFirstWins(Tail(md))
         IN  IF m = None THEN rest ELSE Put(rest, DateKey(m.date), m)

\* moon_lookup of combine_data: later records overwrite earlier ones.
RECURSIVE MoonLookup(_)
MoonLookup(md) ==
    IF md = <<>>
    THEN <<>>
    ELSE LET m == Last(md)
             rest == MoonLookup(Front(md))
         IN  IF m = None THEN rest ELSE Put(rest, DateKey(m.date), m)

\* A point for every bar, the moon record None when the date has none.
RECURSIVE CombinedPointsLeftJoin(_, _)
CombinedPointsLeftJoin(cd, lookup) ==
    IF cd = <<>>
    THEN <<>>
    ELSE LET c == Head(cd)
             rest == CombinedPointsLeftJoin(Tail(cd), lookup)
         IN  IF c = None
             THEN rest
             ELSE <<CombinedDataPoint(c.date, c,
                        IF DateKey(c.date) \in DOMAIN lookup
                        THEN lookup[DateKey(c.date)] ELSE None,
                        None)>> \o rest

\* combined_points of combine_data before the sort.
RECURSIVE CombinedPoints(_, _)
CombinedPoints(cd, lookup) ==
    IF cd = <<>>
    THEN <<>>
    ELSE LET c == Head(cd)
             rest == CombinedPoints(Tail(cd), lookup)
         IN  IF c = None \/ DateKey(c.date) \notin DOMAIN lookup
             THEN rest
             ELSE <<CombinedDataPoint(c.date, c, lookup[DateKey(c.date)],
                                      None)>> \o rest

\* combined_points of combine_data after combined_points.sort(...).
SortedPoints(cd, md) == SortByDate(CombinedPoints(cd, MoonLookup(md)))

\* _update_cache: the cache cleared, then filled in list order.
RECURSIVE UpdateCache(_)
UpdateCache(points) ==
    IF points = <<>>
    THEN <<>>
    ELSE Put(UpdateCache(Front(points)), DateKey(Last(points).date),
             Last(points))

\* ((current_price - previous_price) / previous_price) * 100
PriceChange(current_price, previous_price) ==
    Rat(100 * (current_price - previous_price), previous_price)

\* point with data_point.price_change = ... executed on it.
WithChange(point, previous_price) ==
    [point EXCEPT !.price_change =
        IF previous_price # None /\ previous_price[1] # 0
        THEN PriceChange(point.crypto_data.close_price, previous_price[1])
        ELSE None]

\* previous_price left as it was after a bar that closed at zero.
RECURSIVE ProcessedDataKeepNonZero(_, _)
ProcessedDataKeepNonZero(sorted_data, previous_price) ==
    IF sorted_data = <<>>
    THEN <<>>
    ELSE LET data_point == Head(sorted_data)
         IN  IF data_point.crypto_data = None
             THEN ProcessedDataKeepNonZero(Tail(sorted_data), previous_price)
             ELSE <<WithChange(data_point, previous_price)>> \o
                  ProcessedDataKeepNonZero(Tail(sorted_data),
                      IF data_point.crypto_data.close_price = 0
                      THEN previous_price
                      ELSE Some(data_point.crypto_data.close_price))

\* The loop of DataProcessor.calculate_price_changes (data_processor.py):
\* processed_data from the points not yet visited and previous_price.
RECURSIVE ProcessedData(_, _)
ProcessedData(sorted_data, previous_price) ==
    IF sorted_data = <<>>
    THEN <<>>
    ELSE LET data_point == Head(sorted_data)
         IN  IF data_point.crypto_data = None
             THEN ProcessedData(Tail(sorted_data), previous_price)
             ELSE <<WithChange(data_point, previous_price)>> \o
                  ProcessedData(Tail(sorted_data),
                                Some(data_point.crypto_data.close_price))

\* The loop of the single-file copy (crypto_moon_dashboard.py): a point
\* without crypto_data is passed over and stays in sorted_data as it is.
RECURSIVE DashSortedData(_, _)
DashSortedData(sorted_data, previous_price) ==
    IF sorted_data = <<>>
    THEN <<>>
    ELSE LET data_point == Head(sorted_data)
         IN  IF data_point.crypto_data = None
             THEN <<data_point>> \o
                  DashSortedData(Tail(sorted_data), previous_price)
             ELSE <<WithChange(data_point, previous_price)>> \o
                  DashSortedData(Tail(sorted_data),
                                 Some(data_point.crypto_data.close_price))

\* A point as an object: id is its place in the list the caller passed.
WithId(point, i) ==
    [date |-> point.date, crypto_data |-> point.crypto_data,
     moon_data |-> point.moon_data, price_change |-> point.price_change,
     id |-> i]

WithoutId(object) ==
    CombinedDataPoint(object.date, object.crypto_data, object.moon_data,
                      object.price_change)

Objects(list) == [i \in DOMAIN list |-> WithId(list[i], i)]

Values(objects) == [i \in DOMAIN objects |-> WithoutId(objects[i])]

\* data_to_process.sort(key=...): the caller's list sorted in place.
SortedInPlace(objects) == SortByDate(objects)

\* sorted(data_to_process, key=...) builds a new list: the list the caller
\* passed keeps its order.
AfterSorted(objects) == objects

\* The caller's list after the loop has run over the objects of the sorted
\* list: its objects in the order sorted() left them, each as the loop
\* left it.
ArgumentAfter(list, visited) ==
    LET kept == AfterSorted(Objects(list))
    IN  [i \in DOMAIN kept |->
            IF \E j \in DOMAIN visited : visited[j].id = kept[i].id
            THEN WithoutId(visited[CHOOSE j \in DOMAIN visited :
                                      visited[j].id = kept[i].id])
            ELSE WithoutId(kept[i])]

-----------------------------------------------------------------------------
(* AnalysisResults and CorrelationAnalyzer.                                *)

AnalysisResults(fa, na, fc, nc, total) ==
    [full_moon_avg_change |-> fa, normal_day_avg_change |-> na,
     full_moon_count |-> fc, normal_day_count |-> nc,
     total_data_points |-> total]

\* AnalysisResults.difference
difference(r) == RatSub(r.full_moon_avg_change, r.normal_day_avg_change)

\* [point.price_change for point in points]
ChangesOf(points) == [i \in DOMAIN points |-> points[i].price_change]

\* The sum of the bucket, not divided by its size.
AverageSum(values) == RatSum(values)

\* _calculate_average: 0.0 for an empty list, else statistics.mean.
Average(values) ==
    IF values = <<>>
    THEN Zero
    ELSE LET sum == RatSum(values)
         IN  Rat(sum[1], sum[2] * Len(values))

\* The analysis without its two early returns and with statistics.mean
\* called on the buckets as they are: mean of an empty list raises.
analyze_correlation_unguarded(combined_data) ==
    LET Valid(point) == /\ point.price_change # None
                        /\ point.crypto_data # None
                        /\ point.moon_data # None
        valid_data == SelectSeq(combined_data, Valid)
        IsFull(point) == is_full_moon(point.moon_data)
        IsNormal(point) == ~is_full_moon(point.moon_data)
        full_moon_changes == ChangesOf(SelectSeq(valid_data, IsFull))
        normal_day_changes == ChangesOf(SelectSeq(valid_data, IsNormal))
    IN  IF full_moon_changes = <<>> \/ normal_day_changes = <<>>
        THEN Raised("StatisticsError")
        ELSE AnalysisResults(Average(full_moon_changes),
                             Average(normal_day_changes),
                             Len(full_moon_changes), Len(normal_day_changes),
                             Len(valid_data))

\* CorrelationAnalyzer.analyze_correlation of correlation_analyzer.py.
analyze_correlation_of(combined_data) ==
    LET Valid(point) == /\ point.price_change # None
                        /\ point.crypto_data # None
                        /\ point.moon_data # None
        valid_data == SelectSeq(combined_data, Valid)
        IsFull(point) == is_full_moon(point.moon_data)
        IsNormal(point) == ~is_full_moon(point.moon_data)
        full_moon_changes == ChangesOf(SelectSeq(valid_data, IsFull))
        normal_day_changes == ChangesOf(SelectSeq(valid_data, IsNormal))
    IN  IF combined_data = <<>>
        THEN AnalysisResults(Zero, Zero, 0, 0, 0)
        ELSE IF valid_data = <<>>
        THEN AnalysisResults(Zero, Zero, 0, 0, Len(combined_data))
        ELSE AnalysisResults(Average(full_moon_changes),
                             Average(normal_day_changes),
                             Len(full_moon_changes), Len(normal_day_changes),
                             Len(valid_data))

\* CorrelationAnalyzer.analyze_correlation of the single-file copy: the
\* filter looks at price_change only, and reading is_full_moon of a missing
\* moon record raises AttributeError.
dash_analyze_correlation_of(combined_data) ==
    LET Valid(point) == point.price_change # None
        valid_data == SelectSeq(combined_data, Valid)
        HasMoon(point) == point.moon_data # None
        IsFull(point) == is_full_moon(point.moon_data)
        IsNormal(point) == ~is_full_moon(point.moon_data)
        full_moon_changes == ChangesOf(SelectSeq(valid_data, IsFull))
        normal_day_changes == ChangesOf(SelectSeq(valid_data, IsNormal))
    IN  IF combined_data = <<>> \/ valid_data = <<>>
        THEN AnalysisResults(Zero, Zero, 0, 0, 0)
        ELSE IF SelectSeq(valid_data, HasMoon) # valid_data
        THEN Raised("AttributeError")
        ELSE AnalysisResults(Average(full_moon_changes),
                             Average(normal_day_changes),
                             Len(full_moon_changes), Len(normal_day_changes),
                             Len(valid_data))

\* AnalysisResults.has_sufficient_data
has_sufficient_data(r) == r.full_moon_count >= 1 /\ r.normal_day_count >= 1

\* A text with the number an f-string puts in it (None when it has none);
\* the place of the number in the template is {}.
Text(template, arg) == [text |-> template, arg |-> arg]

\* summary['interpretation'] of generate_summary_statistics
\* (correlation_analyzer.py).
interpretation(r) ==
    IF has_sufficient_data(r)
    THEN IF RatLess(RatAbs(difference(r)), Rat(1, 10))
         THEN Text("No significant difference detected", None)
         ELSE IF RatLess(r.normal_day_avg_change, r.full_moon_avg_change)
         THEN Text("Full moon days show higher average price changes", None)
         ELSE Text("Normal days show higher average price changes", None)
    ELSE Text("Insufficient data for meaningful analysis", None)

\* summary['interpretation'] of the single-file copy; the number is
\* formatted with two decimals there, kept exact here.
dash_interpretation(r) ==
    IF RatLess(RatAbs(difference(r)), Rat(1, 10))
    THEN Text("No significant difference in price performance between full moon and normal days.",
              None)
    ELSE IF RatLess(Zero, difference(r))
    THEN Text("Cryptocurrency tends to perform {}% better on full moon days.",
              difference(r))
    ELSE Text("Cryptocurrency tends to perform {}% worse on full moon days.",
              RatAbs(difference(r)))

\* The entries of the summary that the claims read.
Summary(r, text) ==
    [difference |-> difference(r),
     has_sufficient_data |-> has_sufficient_data(r),
     interpretation |-> text]

\* Lines 182-186 of handle_insufficient_data: no data at all, and the
\* return that follows.
NoDataMessages ==
    Put(Put(<<>>, "error", Text("No data available for analysis", None)),
        "suggestion", Text("Please fetch Bitcoin price data first", None))

\* Lines 188-192: no full moon day.
NoFullMoonMessages(r, m) ==
    IF r.full_moon_count = 0
    THEN Put(Put(m, "warning", Text("No full moon periods found in dataset", None)),
             "suggestion",
             Text("Dataset contains {} data points but no full moon days. Consider expanding the date range to include full moon periods.",
                  Some(r.total_data_points)))
    ELSE m

\* Lines 194-198: no normal day.
NoNormalDayMessages(r, m) ==
    IF r.normal_day_count = 0
    THEN Put(Put(m, "warning", Text("No normal days found in dataset", None)),
             "suggestion",
             Text("Dataset contains only full moon days. This is unusual and may indicate a data filtering issue.",
                  None))
    ELSE m

\* Lines 200-205: fewer full moon days than self.min_data_points.
LimitedFullMoonMessages(r, m) ==
    IF r.full_moon_count < AnalysisConfig.min_data_points_for_analysis
    THEN Put(Put(m, "info", Text("Limited full moon data ({} days)",
                                 Some(r.full_moon_count))),
             "suggestion",
             Text("Results may be less reliable with limited full moon data. Consider expanding the dataset for more robust analysis.",
                  None))
    ELSE m

\* Lines 207-214: fewer than 10 normal days.
LimitedNormalDayMessages(r, m) ==
    IF r.normal_day_count < 10
    THEN Put(Put(m, "info", Text("Limited normal day data ({} days)",
                                 Some(r.normal_day_count))),
             "suggestion",
             Text("More normal day data would improve analysis reliability.", None))
    ELSE m

\* The same with elif in place of the independent ifs, as the single-file
\* copy chains its conditions: the first condition that holds decides.
handle_insufficient_data_chained(r) ==
    IF r.full_moon_count = 0
    THEN Put(Put(<<>>, "error", Text("No full moon periods found in the dataset.", None)),
             "suggestion", Text("Try increasing the date range to include more data.", None))
    ELSE IF r.normal_day_count = 0
    THEN Put(Put(<<>>, "error", Text("No normal day periods found in the dataset.", None)),
             "suggestion", Text("This is unusual - please check the data source.", None))
    ELSE <<>>

\* The dictionary handle_insufficient_data returns (correlation_analyzer.py):
\* a return after the first condition, then four independent ifs that write
\* into one dictionary, a later one replacing what an earlier one wrote
\* under the same key.
handle_insufficient_data_of(r) ==
    IF r.total_data_points = 0
    THEN NoDataMessages
    ELSE LimitedNormalDayMessages(r,
            LimitedFullMoonMessages(r,
               NoNormalDayMessages(r,
                  NoFullMoonMessages(r, <<>>))))

-----------------------------------------------------------------------------
(* Bounds and input sets.                                                  *)

\* The calculator is sampled every MoonStepHours hours, MoonSteps samples
\* on each side of the reference new moon (more than one cycle each way).
MoonSteps == 140

MoonStepHours == 6

\* reference_new_moon + 14.76 days
HalfCycleDate == NEW_MOON_REFERENCE + (1476 * SecondsPerDay) \div 100

MoonDates ==
    {NEW_MOON_REFERENCE + k * MoonStepHours * 3600 : k \in -MoonSteps..MoonSteps}
        \cup {HalfCycleDate}

MoonDateArgs == {None} \cup {Some(t) : t \in MoonDates}

\* Illuminations ephem may report, in percent.
EphemPhases == {0, 50, 99, 100}

\* combine_data is applied to lists of at most MaxCombineLen entries.
MaxCombineLen == 2

\* Two instants of 1 January and one of 2 January.
BarDates == {DateTime(1, 0, 0, 0), DateTime(1, 12, 0, 0), DateTime(2, 0, 0, 0)}

CryptoInputs ==
    SeqsUpTo({None} \cup {CryptoPriceData(d, c) : d \in BarDates, c \in {100, 110}},
             MaxCombineLen)

MoonInputs ==
    SeqsUpTo({None} \cup {MoonPhaseData(d, Pct(p)) : d \in BarDates, p \in {10, 99}},
             MaxCombineLen)


\* calculate_price_changes and analyze_correlation are applied to lists of
\* at most MaxLen points.
MaxLen == 3

\* A price_change left on a point by an earlier call: 5.0.
Stale == Rat(5, 1)

Point(day, close, pct, pc) ==
    CombinedDataPoint(DateTime(day, 0, 0, 0),
                      CryptoPriceData(DateTime(day, 0, 0, 0), close),
                      MoonPhaseData(DateTime(day, 0, 0, 0), Pct(pct)), pc)

\* Points of 1 to 3 January closing at 0, 100 or 110, fresh or carrying a
\* price_change, and points whose crypto_data is missing.
ChangePoints ==
    {Point(d, c, 10, pc) : d \in 1..3, c \in {0, 100, 110}, pc \in {None, Stale}}
        \cup {[Point(d, 100, 10, Stale) EXCEPT !.crypto_data = None] : d \in 1..3}

\* closes [100, 110, 99] on three consecutive days
ExampleCloses == <<Point(1, 100, 10, None), Point(2, 110, 10, None),
                   Point(3, 99, 10, None)>>

\* Lists of one or two points among which closes of 0 and of -50.
AnomalyInputs ==
    SeqsUpTo({Point(d, c, 10, pc) : d \in 1..2, c \in {-50, 0, 100},
                                    pc \in {None, Stale}}, 2)

ChangeInputs ==
    SeqsUpTo(ChangePoints, MaxLen) \cup {ExampleCloses} \cup AnomalyInputs

\* What analyze_correlation reads of a point: its price_change, the phase
\* of its moon record, and whether crypto_data and moon_data are there.
AnalyzeKinds ==
    {Point(1, 100, pct, pc) : pct \in {10, 98, 99},
                              pc \in {None, Rat(5, 1), Rat(-10, 1)}}
        \cup {[Point(1, 100, 99, Stale) EXCEPT !.crypto_data = None],
              [Point(1, 100, 99, Stale) EXCEPT !.moon_data = None]}

\* The i-th point of a list is dated i January.
OnDay(point, day) ==
    [point EXCEPT !.date = DateTime(day, 0, 0, 0),
                  !.crypto_data = IF @ = None THEN None
                                  ELSE [@ EXCEPT !.date = DateTime(day, 0, 0, 0)],
                  !.moon_data = IF @ = None THEN None
                                ELSE [@ EXCEPT !.date = DateTime(day, 0, 0, 0)]]

\* closes 100 / 105 / 95 with phases 10 / 99 / 20 on 1 to 3 January
Scenario == <<Point(1, 100, 10, None), Point(2, 105, 99, None),
              Point(3, 95, 20, None)>>

AnalyzeInputs ==
    {[i \in DOMAIN kinds |-> OnDay(kinds[i], i)] :
        kinds \in SeqsUpTo(AnalyzeKinds, MaxLen)} \cup {Scenario}

\* The reports are made of AnalysisResults with counts up to MaxCount, and
\* with 9 and 10 normal days, the limit handle_insufficient_data looks at.
MaxCount == 2

\* Averages whose differences fall on both sides of 0.1 and on it.
ReportAverages == {Rat(-1, 10), Zero, Rat(1, 20), Rat(1, 10), Rat(5, 1)}

\* Consistent results, and results whose total is 0 or one more than the
\* two counts together, as analyze_correlation reports them when no point
\* is valid.
ReportInputs ==
    UNION {{AnalysisResults(fa, na, fc, nc, 0),
            AnalysisResults(fa, na, fc, nc, fc + nc),
            AnalysisResults(fa, na, fc, nc, fc + nc + 1)} :
           fa \in ReportAverages, na \in ReportAverages,
           fc \in 0..MaxCount, nc \in (0..MaxCount) \cup {9, 10}}

\* FULL_MOON_THRESHOLD in the environment: unset, 97.0 or 99.0.
ThresholdEnv == {None, Some(97), Some(99)}

\* calculate_moon_phases_for_dates is applied to lists of at most
\* MaxBatchLen dates, None among them.
MaxBatchLen == 3

BatchDates ==
    {None} \cup {Some(t) : t \in {DateTime(1, 0, 0, 0), DateTime(1, 12, 0, 0),
                                  DateTime(2, 0, 0, 0), HalfCycleDate}}

BatchInputs == SeqsUpTo(BatchDates, MaxBatchLen)

-----------------------------------------------------------------------------
(* The calculator applied to one date.                                     *)

\* The fields of a DataProcessor.
Fields(data, cache) == [combined_data |-> data, data_cache |-> cache]

\* No report made yet.
ReportIdle ==
    /\ summary = None
    /\ messages = None

\* No fetch_crypto_data called: the arguments at their defaults.
FetchIdle ==
    /\ crypto_name = "Bitcoin"
    /\ limit = 1000
    /\ tried = <<>>
    /\ fetched = None

\* No dashboard started: nothing in st.session_state.
DashboardIdle ==
    /\ session_state = <<>>
    /\ refresh = None
    /\ app = "modular"

\* No list held by a caller.
CallerIdle == held = <<>>

UiIdle ==
    /\ ReportIdle
    /\ FetchIdle
    /\ DashboardIdle
    /\ CallerIdle

\* No combine_data in progress, no batch, nothing read yet.
SessionIdle ==
    /\ dates = <<>>
    /\ line = "idle"
    /\ combined_points = <<>>
    /\ filled = 0
    /\ before = Fields(<<>>, <<>>)
    /\ observed = None
    /\ points_after = <<>>

\* The configuration with FULL_MOON_THRESHOLD unset.
ConfigDefault == full_moon_threshold = AppConfig(None)

ProcessorIdle ==
    /\ crypto_data = <<>>
    /\ moon_data = <<>>
    /\ points_arg = <<>>
    /\ _combined_data = <<>>
    /\ _data_cache = <<>>
    /\ returned = <<>>
    /\ results = None

InitMoon ==
    /\ date_arg \in MoonDateArgs
    /\ phase_data = None
    /\ op = "init"
    /\ ProcessorIdle
    /\ ConfigDefault
    /\ SessionIdle
    /\ UiIdle

CalculateMoonPhase ==
    /\ op = "init"
    /\ phase_data' = calculate_moon_phase(date_arg)
    /\ op' = "calculate_moon_phase"
    /\ UNCHANGED <<date_arg, crypto_data, moon_data, points_arg,
                   _combined_data, _data_cache, returned, results>>
    /\ UNCHANGED otherVars
    /\ UNCHANGED uiVars

\* The single-file copy applied to the same date.
dash_CalculateMoonPhase ==
    /\ op = "init"
    /\ \E moon_phase \in EphemPhases :
           phase_data' = dash_calculate_moon_phase(date_arg, moon_phase)
    /\ op' = "dash_calculate_moon_phase"
    /\ UNCHANGED <<date_arg, crypto_data, moon_data, points_arg,
                   _combined_data, _data_cache, returned, results>>
    /\ UNCHANGED otherVars
    /\ UNCHANGED uiVars

NextMoon ==
    \/ CalculateMoonPhase
    \/ dash_CalculateMoonPhase

SpecMoon == InitMoon /\ [][NextMoon]_vars

-----------------------------------------------------------------------------
(* The calculator applied to a list of dates; what it returns is the       *)
(* moon_data of the pipeline.                                              *)

InitBatch ==
    /\ dates \in BatchInputs
    /\ op = "init"
    /\ date_arg = None
    /\ phase_data = None
    /\ ProcessorIdle
    /\ ConfigDefault
    /\ line = "idle"
    /\ combined_points = <<>>
    /\ filled = 0
    /\ before = Fields(<<>>, <<>>)
    /\ observed = None
    /\ points_after = <<>>
    /\ UiIdle

calculate_moon_phases_for_dates ==
    /\ op = "init"
    /\ op' = "calculate_moon_phases_for_dates"
    /\ moon_data' = MoonPhasesForDates(dates)
    /\ UNCHANGED <<date_arg, phase_data, crypto_data, points_arg,
                   _combined_data, _data_cache, returned, results>>
    /\ UNCHANGED otherVars
    /\ UNCHANGED uiVars

dash_calculate_moon_phases_for_dates ==
    /\ op = "init"
    /\ op' = "dash_calculate_moon_phases_for_dates"
    /\ \E moon_phases \in [DOMAIN dates -> EphemPhases] :
           moon_data' = DashMoonPhasesForDates(dates, moon_phases)
    /\ UNCHANGED <<date_arg, phase_data, crypto_data, points_arg,
                   _combined_data, _data_cache, returned, results>>
    /\ UNCHANGED otherVars
    /\ UNCHANGED uiVars

NextBatch ==
    \/ calculate_moon_phases_for_dates
    \/ dash_calculate_moon_phases_for_dates

SpecBatch == InitBatch /\ [][NextBatch]_vars

-----------------------------------------------------------------------------
(* combine_data applied to one pair of lists by a fresh DataProcessor.     *)

CalculatorIdle ==
    /\ date_arg = None
    /\ phase_data = None

InitCombine ==
    /\ crypto_data \in CryptoInputs
    /\ moon_data \in MoonInputs
    /\ points_arg = <<>>
    /\ _combined_data = <<>>
    /\ _data_cache = <<>>
    /\ returned = <<>>
    /\ results = None
    /\ op = "init"
    /\ CalculatorIdle
    /\ ConfigDefault
    /\ SessionIdle
    /\ UiIdle

combine_data ==
    /\ op = "init"
    /\ op' = "combine_data"
    /\ IF crypto_data = <<>> \/ moon_data = <<>>
       THEN /\ returned' = <<>>
            /\ UNCHANGED <<_combined_data, _data_cache>>
       ELSE LET sorted_points == SortedPoints(crypto_data, moon_data)
            IN  /\ _combined_data' = sorted_points
                /\ _data_cache' = UpdateCache(sorted_points)
                /\ returned' = sorted_points
    /\ UNCHANGED <<date_arg, phase_data, crypto_data, moon_data, points_arg,
                   results>>
    /\ UNCHANGED otherVars
    /\ UNCHANGED uiVars

NextCombine == combine_data

SpecCombine == InitCombine /\ [][NextCombine]_vars

-----------------------------------------------------------------------------
(* calculate_price_changes applied to one list by a fresh DataProcessor,   *)
(* and once more to the data it stored.                                    *)

InitChanges ==
    /\ points_arg \in ChangeInputs
    /\ crypto_data = <<>>
    /\ moon_data = <<>>
    /\ _combined_data = <<>>
    /\ _data_cache = <<>>
    /\ returned = <<>>
    /\ results = None
    /\ op = "init"
    /\ CalculatorIdle
    /\ ConfigDefault
    /\ SessionIdle
    /\ UiIdle

\* DataProcessor.calculate_price_changes(data_to_process) of
\* data_processor.py, the argument already resolved.
PriceChangesOf(data_to_process) ==
    IF data_to_process = <<>>
    THEN /\ returned' = <<>>
         /\ points_after' = data_to_process
         /\ UNCHANGED <<_combined_data, _data_cache>>
    ELSE LET processed ==
                 ProcessedData(SortByDate(Objects(data_to_process)), None)
             processed_data == Values(processed)
         IN  /\ _combined_data' = processed_data
             /\ _data_cache' = UpdateCache(processed_data)
             /\ returned' = processed_data
             /\ points_after' = ArgumentAfter(data_to_process, processed)

\* calculate_price_changes(combined_data) with a list.
calculate_price_changes ==
    /\ op = "init"
    /\ op' = "calculate_price_changes"
    /\ PriceChangesOf(points_arg)
    /\ UNCHANGED <<date_arg, phase_data, crypto_data, moon_data, points_arg,
                   results>>
    /\ UNCHANGED sessionVars
    /\ UNCHANGED uiVars

\* calculate_price_changes() with no argument: the stored data.
calculate_price_changes_stored ==
    /\ op = "calculate_price_changes"
    /\ op' = "calculate_price_changes_stored"
    /\ points_arg' = _combined_data
    /\ PriceChangesOf(_combined_data)
    /\ UNCHANGED <<date_arg, phase_data, crypto_data, moon_data, results>>
    /\ UNCHANGED sessionVars
    /\ UNCHANGED uiVars

\* calculate_price_changes(combined_data) of the single-file copy: the
\* sorted list is returned and the processor's state is not touched.
dash_calculate_price_changes ==
    /\ op = "init"
    /\ op' = "dash_calculate_price_changes"
    /\ IF points_arg = <<>>
       THEN /\ returned' = <<>>
            /\ points_after' = points_arg
       ELSE LET sorted_data ==
                    DashSortedData(SortByDate(Objects(points_arg)), None)
            IN  /\ returned' = Values(sorted_data)
                /\ points_after' = ArgumentAfter(points_arg, sorted_data)
    /\ UNCHANGED <<date_arg, phase_data, crypto_data, moon_data, points_arg,
                   _combined_data, _data_cache, results>>
    /\ UNCHANGED sessionVars
    /\ UNCHANGED uiVars

NextChanges ==
    \/ calculate_price_changes
    \/ calculate_price_changes_stored
    \/ dash_calculate_price_changes

SpecChanges == InitChanges /\ [][NextChanges]_vars

-----------------------------------------------------------------------------
(* analyze_correlation applied to one list, as given or after              *)
(* calculate_price_changes has annotated it.                               *)

InitAnalyze ==
    /\ points_arg \in AnalyzeInputs
    /\ crypto_data = <<>>
    /\ moon_data = <<>>
    /\ _combined_data = <<>>
    /\ _data_cache = <<>>
    /\ returned = <<>>
    /\ results = None
    /\ op = "init"
    /\ CalculatorIdle
    /\ \E env_threshold \in ThresholdEnv :
           full_moon_threshold = AppConfig(env_threshold)
    /\ SessionIdle
    /\ UiIdle

\* The list handed to the analyzer: the annotated one when there is one.
AnalyzerInput == IF op = "init" THEN points_arg ELSE returned

analyze_correlation ==
    /\ op \in {"init", "calculate_price_changes"}
    /\ op' = "analyze_correlation"
    /\ points_arg' = AnalyzerInput
    /\ results' = analyze_correlation_of(AnalyzerInput)
    /\ UNCHANGED <<date_arg, phase_data, crypto_data, moon_data,
                   _combined_data, _data_cache, returned>>
    /\ UNCHANGED otherVars
    /\ UNCHANGED uiVars

dash_analyze_correlation ==
    /\ op \in {"init", "calculate_price_changes"}
    /\ op' = "dash_analyze_correlation"
    /\ points_arg' = AnalyzerInput
    /\ results' = dash_analyze_correlation_of(AnalyzerInput)
    /\ UNCHANGED <<date_arg, phase_data, crypto_data, moon_data,
                   _combined_data, _data_cache, returned>>
    /\ UNCHANGED otherVars
    /\ UNCHANGED uiVars

NextAnalyze ==
    \/ calculate_price_changes
    \/ analyze_correlation
    \/ dash_analyze_correlation

SpecAnalyze == InitAnalyze /\ [][NextAnalyze]_vars

-----------------------------------------------------------------------------
(* The analyzer's two reports made of one AnalysisResults.                 *)

InitReport ==
    /\ results \in ReportInputs
    /\ crypto_data = <<>>
    /\ moon_data = <<>>
    /\ points_arg = <<>>
    /\ _combined_data = <<>>
    /\ _data_cache = <<>>
    /\ returned = <<>>
    /\ op = "init"
    /\ CalculatorIdle
    /\ ConfigDefault
    /\ SessionIdle
    /\ UiIdle

generate_summary_statistics ==
    /\ op = "init"
    /\ op' = "generate_summary_statistics"
    /\ summary' = Summary(results, interpretation(results))
    /\ UNCHANGED <<date_arg, phase_data, crypto_data, moon_data, points_arg,
                   _combined_data, _data_cache, returned, results, messages>>
    /\ UNCHANGED otherVars
    /\ UNCHANGED <<fetchVars, dashboardVars, held>>

dash_generate_summary_statistics ==
    /\ op = "init"
    /\ op' = "dash_generate_summary_statistics"
    /\ summary' = Summary(results, dash_interpretation(results))
    /\ UNCHANGED <<date_arg, phase_data, crypto_data, moon_data, points_arg,
                   _combined_data, _data_cache, returned, results, messages>>
    /\ UNCHANGED otherVars
    /\ UNCHANGED <<fetchVars, dashboardVars, held>>

handle_insufficient_data ==
    /\ op = "init"
    /\ op' = "handle_insufficient_data"
    /\ messages' = handle_insufficient_data_of(results)
    /\ UNCHANGED <<date_arg, phase_data, crypto_data, moon_data, points_arg,
                   _combined_data, _data_cache, returned, results, summary>>
    /\ UNCHANGED otherVars
    /\ UNCHANGED <<fetchVars, dashboardVars, held>>

NextReport ==
    \/ handle_insufficient_data
    \/ generate_summary_statistics
    \/ dash_generate_summary_statistics

SpecReport == InitReport /\ [][NextReport]_vars

-----------------------------------------------------------------------------
(* One DataProcessor over a session: combine_data called again and again,  *)
(* executed statement by statement, and a reader that calls                *)
(* get_data_by_date and retrieve_all_data at any moment.                   *)

\* Lists of at most MaxSessionLen bars are combined.
MaxSessionLen == 2

\* Two bars of 1 January that differ in their close and one of 2 January.
SessionBars ==
    {CryptoPriceData(DateTime(1, 0, 0, 0), 100),
     CryptoPriceData(DateTime(1, 0, 0, 0), 110),
     CryptoPriceData(DateTime(2, 0, 0, 0), 100)}

SessionCrypto == SeqsUpTo(SessionBars, MaxSessionLen)

\* No moon record, one of 1 January, or one of each day.
SessionMoon ==
    {<<>>,
     <<MoonPhaseData(DateTime(1, 0, 0, 0), Pct(10))>>,
     <<MoonPhaseData(DateTime(1, 0, 0, 0), Pct(10)),
       MoonPhaseData(DateTime(2, 0, 0, 0), Pct(99))>>}

\* The calendar dates the reader asks for.
SessionDays == {DateOf(DateTime(1, 0, 0, 0)), DateOf(DateTime(2, 0, 0, 0))}

InitSession ==
    /\ CalculatorIdle
    /\ ProcessorIdle
    /\ ConfigDefault
    /\ SessionIdle
    /\ UiIdle
    /\ op = "init"

\* dict.get(key)
Get(d, k) == IF k \in DOMAIN d THEN d[k] ELSE None

\* Lines 56-100: the early returns, the lookup, the join and the sort; none
\* of them reads or writes the processor's fields.
combine_data_enter ==
    /\ line = "idle"
    /\ \E cd \in SessionCrypto, md \in SessionMoon :
          /\ crypto_data' = cd
          /\ moon_data' = md
          /\ IF cd = <<>> \/ md = <<>>
             THEN /\ returned' = <<>>
                  /\ op' = "combine_data"
                  /\ UNCHANGED <<line, combined_points, filled, before>>
             ELSE /\ combined_points' = SortedPoints(cd, md)
                  /\ before' = Fields(_combined_data, _data_cache)
                  /\ line' = "103"
                  /\ filled' = 0
                  /\ UNCHANGED <<returned, op>>
    /\ UNCHANGED <<date_arg, phase_data, points_arg, _combined_data,
                   _data_cache, results, full_moon_threshold, dates,
                   points_after>>
    /\ observed' = None
    /\ UNCHANGED uiVars

\* Line 103: self._combined_data = combined_points
combine_data_store ==
    /\ line = "103"
    /\ _combined_data' = combined_points
    /\ line' = "254"
    /\ UNCHANGED <<date_arg, phase_data, crypto_data, moon_data, points_arg,
                   _data_cache, returned, results, op, full_moon_threshold,
                   dates, combined_points, filled, before, points_after>>
    /\ observed' = None
    /\ UNCHANGED uiVars

\* Line 254: self._data_cache.clear()
update_cache_clear ==
    /\ line = "254"
    /\ _data_cache' = <<>>
    /\ line' = "255"
    /\ UNCHANGED <<date_arg, phase_data, crypto_data, moon_data, points_arg,
                   _combined_data, returned, results, op, full_moon_threshold,
                   dates, combined_points, filled, before, points_after>>
    /\ observed' = None
    /\ UNCHANGED uiVars

\* Lines 255-258: one turn of the loop, self._data_cache[date_key] = ...
update_cache_put ==
    /\ line = "255"
    /\ filled < Len(combined_points)
    /\ LET data_point == combined_points[filled + 1]
       IN  _data_cache' = Put(_data_cache, DateKey(data_point.date), data_point)
    /\ filled' = filled + 1
    /\ UNCHANGED <<date_arg, phase_data, crypto_data, moon_data, points_arg,
                   _combined_data, returned, results, op, full_moon_threshold,
                   dates, line, combined_points, before, points_after>>
    /\ observed' = None
    /\ UNCHANGED uiVars

\* Line 106, the loop over: return combined_points
combine_data_return ==
    /\ line = "255"
    /\ filled = Len(combined_points)
    /\ returned' = combined_points
    /\ op' = "combine_data"
    /\ line' = "idle"
    /\ combined_points' = <<>>
    /\ filled' = 0
    /\ before' = Fields(<<>>, <<>>)
    /\ UNCHANGED <<date_arg, phase_data, crypto_data, moon_data, points_arg,
                   _combined_data, _data_cache, results, full_moon_threshold,
                   dates, points_after>>
    /\ observed' = None
    /\ UNCHANGED uiVars

\* The processor's fields before and after the combine_data in progress;
\* the fields as they are when none is.
FieldsBefore ==
    IF line = "idle" THEN Fields(_combined_data, _data_cache) ELSE before

FieldsAfter ==
    IF line = "idle"
    THEN Fields(_combined_data, _data_cache)
    ELSE Fields(combined_points, UpdateCache(combined_points))

\* get_data_by_date(target_date), called by the reader.
get_data_by_date ==
    /\ \E target_date \in SessionDays :
          observed' = [call |-> "get_data_by_date",
                       value |-> Get(_data_cache, target_date),
                       old |-> Get(FieldsBefore.data_cache, target_date),
                       new |-> Get(FieldsAfter.data_cache, target_date)]
    /\ UNCHANGED <<coreVars, full_moon_threshold, dates, line,
                   combined_points, filled, before, points_after>>
    /\ UNCHANGED uiVars

\* retrieve_all_data(), called by the reader.
retrieve_all_data ==
    /\ observed' = [call |-> "retrieve_all_data",
                    value |-> _combined_data,
                    old |-> FieldsBefore.combined_data,
                    new |-> FieldsAfter.combined_data]
    /\ UNCHANGED <<coreVars, full_moon_threshold, dates, line,
                   combined_points, filled, before, points_after>>
    /\ UNCHANGED uiVars

NextSession ==
    \/ combine_data_enter
    \/ combine_data_store
    \/ update_cache_clear
    \/ update_cache_put
    \/ combine_data_return
    \/ get_data_by_date
    \/ retrieve_all_data

SpecSession == InitSession /\ [][NextSession]_vars

-----------------------------------------------------------------------------
(* The three stages of the core together: each applied to the inputs of    *)
(* its own specification and to the empty inputs of the others'.           *)

InitCore == InitCombine \/ InitChanges \/ InitAnalyze

NextCore == NextCombine \/ NextChanges \/ NextAnalyze

SpecCore == InitCore /\ [][NextCore]_vars

-----------------------------------------------------------------------------
(* Claims about the calculator.                                            *)

Computed == op = "calculate_moon_phase" /\ phase_data # None

\* C7: every illumination percentage returned by calculate_moon_phase lies
\* in [0, 100], also for dates before the reference new moon.
C7_PhaseInRange ==
    Computed =>
        /\ BigLeq(BigZero, phase_data.phase_percentage)
        /\ BigLeq(phase_data.phase_percentage, Pct(100))

\* A date before the reference whose phase is strictly inside the range.
C7_Witness ==
    /\ Computed
    /\ phase_data.date < NEW_MOON_REFERENCE
    /\ BigLess(BigZero, phase_data.phase_percentage)
    /\ BigLess(phase_data.phase_percentage, Pct(100))

\* C8: cycle_position is the fractional part of the elapsed cycles, in
\* [0, 1) on both sides of the reference (pos = diff - k * cycle for the
\* whole number k that puts it in [0, cycle)), and the phase returned is
\* cycle_position * 200 up to one half and (1 - cycle_position) * 200 after
\* it; it is 0 at the reference itself.
C8_PhaseFormula ==
    Computed =>
        /\ \E k \in -200..200 :
              LET pos == BigSub(TimeDiff(phase_data.date),
                                BigScale(LUNAR_CYCLE, k))
              IN  /\ BigLeq(BigZero, pos)
                  /\ BigLess(pos, LUNAR_CYCLE)
                  /\ phase_data.phase_percentage =
                        IF BigLeq(BigScale(pos, 2), LUNAR_CYCLE)
                        THEN BigScale(pos, 200)
                        ELSE BigScale(BigSub(LUNAR_CYCLE, pos), 200)
        /\ phase_data.date = NEW_MOON_REFERENCE
              => phase_data.phase_percentage = BigZero

\* A date before the reference that falls in the waning half.
C8_Witness ==
    /\ Computed
    /\ phase_data.date < NEW_MOON_REFERENCE
    /\ BigLess(LUNAR_CYCLE, BigScale(CyclePosition(phase_data.date), 2))
    /\ BigLess(BigZero, phase_data.phase_percentage)

\* One synodic month, 29.530588853 days, to the nearest second.
SynodicMonthSeconds == 2551443

\* C9: the phase one synodic month later differs from the phase of the
\* date by at most one percentage point.
C9_Periodicity ==
    Computed =>
        LET later == calculate_moon_phase(
                         Some(phase_data.date + SynodicMonthSeconds))
            delta == BigSub(later.phase_percentage, phase_data.phase_percentage)
        IN  /\ BigLeq(BigSub(BigZero, Pct(1)), delta)
            /\ BigLeq(delta, Pct(1))

\* A date less than a month before the reference: the month added crosses
\* the reference new moon.
C9_Witness ==
    /\ Computed
    /\ phase_data.date < NEW_MOON_REFERENCE
    /\ phase_data.date + SynodicMonthSeconds > NEW_MOON_REFERENCE
    /\ BigLess(Pct(50), phase_data.phase_percentage)

\* C10: 14.76 days after the reference new moon the moon is full.
C10_FullMoonAtHalfCycle ==
    (op = "calculate_moon_phase" /\ date_arg = Some(HalfCycleDate)) =>
        /\ phase_data # None
        /\ is_full_moon(phase_data)

C10_Witness ==
    /\ Computed
    /\ date_arg = Some(NEW_MOON_REFERENCE + 14 * SecondsPerDay
                           + 18 * 3600 + 14 * 60 + 24)

-----------------------------------------------------------------------------
(* Claims about combine_data.                                              *)

\* The calendar dates of the moon records given to combine_data.
MoonDays == {DateOf(moon_data[j].date) :
                j \in {j \in DOMAIN moon_data : moon_data[j] # None}}

\* The positions of the price bars whose calendar date has a moon record.
MatchingBars ==
    {i \in DOMAIN crypto_data :
        crypto_data[i] # None /\ DateOf(crypto_data[i].date) \in MoonDays}

\* C1: the output holds exactly one point for each price bar whose calendar
\* date is the calendar date of some moon record and nothing else: the
\* points correspond one to one to the matching bars, and each point's
\* moon record is a record of the input with the point's calendar date.
C1_InnerJoin ==
    op = "combine_data" =>
        /\ \E f \in [DOMAIN returned -> MatchingBars] :
              /\ \A a, b \in DOMAIN returned : f[a] = f[b] => a = b
              /\ \A i \in MatchingBars : \E a \in DOMAIN returned : f[a] = i
              /\ \A a \in DOMAIN returned :
                    /\ returned[a].crypto_data = crypto_data[f[a]]
                    /\ returned[a].date = crypto_data[f[a]].date
        /\ \A a \in DOMAIN returned :
              /\ returned[a].moon_data \in Range(moon_data) \ {None}
              /\ DateOf(returned[a].moon_data.date) = DateOf(returned[a].date)

\* A bar matched through a moon record of another time of day, beside a
\* bar of a day that has no moon record.
C1_Witness ==
    /\ op = "combine_data"
    /\ Len(returned) = 1
    /\ Len(crypto_data) = 2
    /\ returned[1].date # returned[1].moon_data.date
    /\ \E i \in DOMAIN crypto_data :
          crypto_data[i] # None /\ DateOf(crypto_data[i].date) \notin MoonDays

Min(a, b) == IF a < b THEN a ELSE b

\* C2 as claimed: the output is never longer than the shorter input.
C2_Original ==
    op = "combine_data" =>
        Len(returned) <= Min(Len(crypto_data), Len(moon_data))

\* No two price bars of the input share a calendar date.
DistinctBarDays ==
    \A i, j \in DOMAIN crypto_data :
        (crypto_data[i] # None /\ crypto_data[j] # None /\ i # j)
            => DateOf(crypto_data[i].date) # DateOf(crypto_data[j].date)

\* C2 amended: the output is never longer than the price input, and never
\* longer than the shorter input when no two price bars share a calendar
\* date (several moon records may share one).
C2_LengthBound ==
    op = "combine_data" =>
        /\ Len(returned) <= Len(crypto_data)
        /\ DistinctBarDays =>
              Len(returned) <= Min(Len(crypto_data), Len(moon_data))

\* Two moon records of one day, and the bar of that day combined.
C2_Witness ==
    /\ op = "combine_data"
    /\ Len(moon_data) = 2
    /\ moon_data[1] # None /\ moon_data[2] # None
    /\ DateOf(moon_data[1].date) = DateOf(moon_data[2].date)
    /\ DistinctBarDays
    /\ Len(crypto_data) = 2
    /\ Len(returned) = 1

-----------------------------------------------------------------------------
(* Claims about calculate_price_changes.                                   *)

ChangesComputed ==
    op \in {"calculate_price_changes", "calculate_price_changes_stored",
            "dash_calculate_price_changes"}

HasCrypto(point) == point.crypto_data # None

\* C3: the returned points are in date order, and each point after the
\* first (of those that have a close) carries (close - previous_close) /
\* previous_close * 100, previous_close being the close of the point right
\* before it; after a point that closed at 0 the change is none and the
\* point after that one is computed from its close again.  Closes
\* [100, 110, 99] give [none, +10, -10].
C3_PriceChangeFormula ==
    ChangesComputed =>
        LET priced == SelectSeq(returned, HasCrypto)
        IN  /\ \A i \in 1..(Len(returned) - 1) :
                  returned[i].date <= returned[i + 1].date
            /\ \A i \in 2..Len(priced) :
                  LET close == priced[i].crypto_data.close_price
                      previous_close == priced[i - 1].crypto_data.close_price
                      change == priced[i].price_change
                  IN  IF previous_close = 0
                      THEN change = None
                      ELSE /\ change # None
                           /\ change[1] * previous_close =
                                 100 * (close - previous_close) * change[2]
            /\ points_arg = ExampleCloses =>
                  ChangesOf(returned) = <<None, <<10, 1>>, <<-10, 1>>>>

\* A point after a close of 0 has no change, and the point after it has
\* one, computed from the close that followed the 0.
C3_Witness ==
    /\ op = "calculate_price_changes"
    /\ Len(returned) = 3
    /\ returned[1].crypto_data.close_price = 0
    /\ returned[2].crypto_data.close_price = 100
    /\ returned[2].price_change = None
    /\ returned[3].price_change = <<10, 1>>

\* C4: the first element of a non-empty returned list has no price_change.
C4_FirstPointNone ==
    (ChangesComputed /\ returned # <<>>) => returned[1].price_change = None

\* The same of data_processor.py alone, which drops the points it passes
\* over: there the first element never keeps the value it carried.
FirstPointNoneInProcessor ==
    (op \in {"calculate_price_changes", "calculate_price_changes_stored"}
        /\ returned # <<>>)
            => returned[1].price_change = None

-----------------------------------------------------------------------------
(* Claims about analyze_correlation.                                       *)

Analysed ==
    /\ op \in {"analyze_correlation", "dash_analyze_correlation"}
    /\ "raised" \notin DOMAIN results

\* C5: the two bucket counts add up to total_data_points.
C5_BucketsPartitionTotal ==
    Analysed =>
        results.full_moon_count + results.normal_day_count
            = results.total_data_points

\* The points of the analysed list that carry a price_change.
WithChangeSet == {i \in DOMAIN points_arg : points_arg[i].price_change # None}

RECURSIVE ChangeSum(_)
ChangeSum(S) ==
    IF S = {}
    THEN Zero
    ELSE LET i == CHOOSE i \in S : TRUE
         IN  RatAdd(points_arg[i].price_change, ChangeSum(S \ {i}))

\* avg is the arithmetic mean of the changes of the points S, 0 for none.
IsMeanOf(avg, S) ==
    IF S = {}
    THEN avg = Zero
    ELSE avg[1] * ChangeSum(S)[2] * Cardinality(S) = ChangeSum(S)[1] * avg[2]

Near(x, c) == RatLess(RatAbs(RatSub(x, c)), Rat(1, 100))

\* The scenario after calculate_price_changes.
ScenarioAnnotated ==
    <<Point(1, 100, 10, None), Point(2, 105, 99, Rat(5, 1)),
      Point(3, 95, 20, Rat(-200, 21))>>

\* C6: the points analysed all carry a price_change and include every such
\* point with crypto and moon data; a point counts as full moon exactly
\* when its moon record is_full_moon and as normal otherwise; each average
\* is the mean of its bucket's changes, 0 for an empty bucket.  The
\* scenario gives 5.0, about -9.52 and a difference of about 14.52.
C6_BucketAverages ==
    Analysed =>
        /\ \E V \in SUBSET WithChangeSet :
              /\ \A i \in WithChangeSet :
                    (points_arg[i].crypto_data # None
                        /\ points_arg[i].moon_data # None) => i \in V
              /\ \A i \in V : points_arg[i].moon_data # None
              /\ LET F == {i \in V : is_full_moon(points_arg[i].moon_data)}
                     N == V \ F
                 IN  /\ results.full_moon_count = Cardinality(F)
                     /\ results.normal_day_count = Cardinality(N)
                     /\ IsMeanOf(results.full_moon_avg_change, F)
                     /\ IsMeanOf(results.normal_day_avg_change, N)
        /\ points_arg = ScenarioAnnotated =>
              /\ results.full_moon_avg_change = <<5, 1>>
              /\ Near(results.normal_day_avg_change, Rat(-952, 100))
              /\ Near(difference(results), Rat(1452, 100))

\* The scenario annotated by calculate_price_changes and then analysed.
C6_Witness ==
    /\ op = "analyze_correlation"
    /\ points_arg = ScenarioAnnotated
    /\ returned = ScenarioAnnotated
    /\ results.full_moon_count = 1
    /\ results.normal_day_count = 1

-----------------------------------------------------------------------------
(* Claims about the full-moon threshold.                                   *)

\* phase > t for a threshold t in percentage points.
Above(m, t) == BigLess(Pct(t), m.phase_percentage)

\* The points analyze_correlation of correlation_analyzer.py keeps.
FullyValid ==
    {i \in DOMAIN points_arg : /\ points_arg[i].price_change # None
                               /\ points_arg[i].crypto_data # None
                               /\ points_arg[i].moon_data # None}

\* C11: for every moon record and every configured full-moon threshold t,
\* is_full_moon is (phase > t), strictly, and analyze_correlation counts as
\* full-moon points exactly those whose phase is above the configured t.
C11_ConfiguredThreshold ==
    op = "analyze_correlation" =>
        /\ \A i \in DOMAIN points_arg :
              points_arg[i].moon_data # None =>
                 (is_full_moon(points_arg[i].moon_data)
                     <=> Above(points_arg[i].moon_data, full_moon_threshold))
        /\ results.full_moon_count =
              Cardinality({i \in FullyValid :
                  Above(points_arg[i].moon_data, full_moon_threshold)})

\* With FULL_MOON_THRESHOLD unset the same holds: the comparison is strict,
\* a phase of exactly 98.0 is a normal day.
ThresholdAtDefault ==
    (op = "analyze_correlation" /\ full_moon_threshold = AppConfig(None)) =>
        /\ results.full_moon_count =
              Cardinality({i \in FullyValid : Above(points_arg[i].moon_data, 98)})
        /\ \A i \in FullyValid :
              points_arg[i].moon_data.phase_percentage = Pct(98) =>
                 ~is_full_moon(points_arg[i].moon_data)

\* A point of phase exactly 98.0 analysed under the default threshold.
ThresholdAtDefaultReached ==
    /\ op = "analyze_correlation"
    /\ full_moon_threshold = 98
    /\ \E i \in FullyValid :
          points_arg[i].moon_data.phase_percentage = Pct(98)
    /\ results.full_moon_count = 0
    /\ results.normal_day_count > 0

-----------------------------------------------------------------------------
(* Claims about invalid dates and the batch.                               *)

\* C12: calculate_moon_phase with a None date fails with an error that
\* reaches the caller instead of returning a value, and with a valid date
\* it returns the record of that date.
C12_InvalidDateRaises ==
    op \in {"calculate_moon_phase", "dash_calculate_moon_phase"} =>
        IF date_arg = None
        THEN phase_data # None /\ "raised" \in DOMAIN phase_data
        ELSE /\ phase_data # None
             /\ "raised" \notin DOMAIN phase_data
             /\ phase_data.date = date_arg[1]

\* What does hold: a valid date always gives its record; a None date gives
\* None from moon_calculator.py and an exception from the single-file copy.
InvalidDateOutcome ==
    /\ op = "calculate_moon_phase" =>
          IF date_arg = None
          THEN phase_data = None
          ELSE phase_data # None /\ phase_data.date = date_arg[1]
    /\ op = "dash_calculate_moon_phase" =>
          IF date_arg = None
          THEN phase_data = Raised("AttributeError")
          ELSE phase_data.date = date_arg[1]

Batched ==
    op \in {"calculate_moon_phases_for_dates",
            "dash_calculate_moon_phases_for_dates"}

\* The strictly increasing maps from the places of one list to another's.
Increasing(n, m) ==
    {f \in [1..n -> 1..m] : \A i, j \in 1..n : i < j => f[i] < f[j]}

\* C13: the batch returns the records of exactly the dates that did not
\* fail, in input order, each the record calculate_moon_phase gives for its
\* date alone; the result is no longer than the input.
C13_BatchSkipsFailures ==
    Batched =>
        /\ Len(moon_data) <= Len(dates)
        /\ \E f \in Increasing(Len(moon_data), Len(dates)) :
              /\ {f[j] : j \in DOMAIN moon_data} =
                    {i \in DOMAIN dates : dates[i] # None}
              /\ \A j \in DOMAIN moon_data :
                    /\ moon_data[j].date = dates[f[j]][1]
                    /\ op = "calculate_moon_phases_for_dates" =>
                          moon_data[j] = calculate_moon_phase(dates[f[j]])

\* A failing date between two good ones, the same instant twice: both
\* records are returned.
C13_Witness ==
    /\ op = "calculate_moon_phases_for_dates"
    /\ dates = <<Some(HalfCycleDate), None, Some(HalfCycleDate)>>
    /\ Len(moon_data) = 2
    /\ is_full_moon(moon_data[1])
    /\ moon_data[2] = moon_data[1]

-----------------------------------------------------------------------------
(* Claims about the order of combine_data's output.                        *)

\* The price bars of the output, in output order.
ReturnedBars == [a \in DOMAIN returned |-> returned[a].crypto_data]

\* The price bars of the input that are combined, in input order.
CombinedBars ==
    LET Matched(c) == c # None /\ DateOf(c.date) \in MoonDays
    IN  SelectSeq(crypto_data, Matched)

\* The bars of s dated on calendar day D, in the order of s.
BarsOfDay(s, D) ==
    LET OfDay(c) == DateOf(c.date) = D
    IN  SelectSeq(s, OfDay)

\* The bars of s dated at the instant T, in the order of s.
BarsAt(s, T) ==
    LET At(c) == c.date = T
    IN  SelectSeq(s, At)

ReturnedAscending ==
    \A a, b \in DOMAIN returned : a < b => returned[a].date <= returned[b].date

SameDayAdjacent ==
    \A a, b, c \in DOMAIN returned :
        (a < b /\ b < c /\ DateOf(returned[a].date) = DateOf(returned[c].date))
            => DateOf(returned[b].date) = DateOf(returned[a].date)

\* C14 as claimed: the output ascends by date, and the bars of one calendar
\* date all appear, adjacent, in the relative order in which they arrived.
C14_Original ==
    op = "combine_data" =>
        /\ ReturnedAscending
        /\ SameDayAdjacent
        /\ \A i \in DOMAIN CombinedBars :
              LET D == DateOf(CombinedBars[i].date)
              IN  BarsOfDay(ReturnedBars, D) = BarsOfDay(CombinedBars, D)

\* C14 amended: the output ascends by timestamp; the combined bars of one
\* calendar date all appear, adjacent, ordered by their time of day; bars
\* of one and the same timestamp keep the order in which they arrived.
C14_OrderedByTimestamp ==
    op = "combine_data" =>
        /\ ReturnedAscending
        /\ SameDayAdjacent
        /\ Len(ReturnedBars) = Len(CombinedBars)
        /\ \A i \in DOMAIN CombinedBars :
              LET T == CombinedBars[i].date
              IN  BarsAt(ReturnedBars, T) = BarsAt(CombinedBars, T)

\* The noon bar of a day arrives before the midnight bar of the same day
\* and comes out after it.
C14_Witness ==
    /\ op = "combine_data"
    /\ Len(crypto_data) = 2
    /\ crypto_data[1] # None /\ crypto_data[2] # None
    /\ DateOf(crypto_data[1].date) = DateOf(crypto_data[2].date)
    /\ crypto_data[1].date > crypto_data[2].date
    /\ ReturnedBars = <<crypto_data[2], crypto_data[1]>>

-----------------------------------------------------------------------------
(* Claims about duplicate moon records.                                    *)

MaxOf(S) == CHOOSE x \in S : \A y \in S : y <= x

\* The places of the moon input that hold a record of calendar day D.
MoonRecordsOfDay(D) ==
    {j \in DOMAIN moon_data :
        moon_data[j] # None /\ DateOf(moon_data[j].date) = D}

\* C15: every combined point carries the last record of the moon input
\* that has the point's calendar date, whatever the order of the bars.
C15_LastMoonRecordWins ==
    op = "combine_data" =>
        \A a \in DOMAIN returned :
            LET J == MoonRecordsOfDay(DateOf(returned[a].date))
            IN  /\ J # {}
                /\ returned[a].moon_data = moon_data[MaxOf(J)]

\* Two different moon records of one day and two bars of that day: both
\* points carry the second record.
C15_Witness ==
    /\ op = "combine_data"
    /\ Len(moon_data) = 2
    /\ moon_data[1] # None /\ moon_data[2] # None
    /\ DateOf(moon_data[1].date) = DateOf(moon_data[2].date)
    /\ moon_data[1].phase_percentage # moon_data[2].phase_percentage
    /\ Len(returned) = 2
    /\ returned[1].moon_data = moon_data[2]
    /\ returned[2].moon_data = moon_data[2]

-----------------------------------------------------------------------------
(* Claims about empty input.                                               *)

\* C16: empty input is not an error.  combine_data returns the empty list
\* when either input is empty, calculate_price_changes returns the empty
\* list for an empty list, analyze_correlation of an empty list returns
\* (0.0, 0.0, 0, 0, 0), and none of them raises.
C16_EmptyInputNoError ==
    /\ (op = "combine_data" /\ (crypto_data = <<>> \/ moon_data = <<>>))
          => returned = <<>>
    /\ (op \in {"calculate_price_changes", "calculate_price_changes_stored",
                "dash_calculate_price_changes"} /\ points_arg = <<>>)
          => returned = <<>>
    /\ (op \in {"analyze_correlation", "dash_analyze_correlation"}
           /\ points_arg = <<>>)
          => results = AnalysisResults(Zero, Zero, 0, 0, 0)

\* The empty list annotated, and what came back analysed.
C16_Witness ==
    /\ op = "analyze_correlation"
    /\ points_arg = <<>>
    /\ returned = <<>>
    /\ crypto_data = <<>>
    /\ results.total_data_points = 0

\* combine_data given bars and no moon record.
EmptyMoonInputReached ==
    /\ op = "combine_data"
    /\ crypto_data # <<>>
    /\ moon_data = <<>>
    /\ returned = <<>>

-----------------------------------------------------------------------------
(* Claims about the point cache.                                           *)

\* combine_data has just returned.
Combined == op = "combine_data" /\ line = "idle"

ReturnedDays == {DateOf(returned[a].date) : a \in DOMAIN returned}

\* C17: after every call of combine_data, whatever preceded it and whatever
\* it was given, the cache holds exactly the calendar dates of that call's
\* output, each with a point of that output, and nothing of an earlier call.
C17_CacheReplaced ==
    Combined =>
        /\ DOMAIN _data_cache = ReturnedDays
        /\ \A k \in DOMAIN _data_cache : _data_cache[k] \in Range(returned)

\* The same of the calls that were given two non-empty lists.
CacheReplacedUnlessEmptyInput ==
    (Combined /\ crypto_data # <<>> /\ moon_data # <<>>) =>
        /\ DOMAIN _data_cache = ReturnedDays
        /\ \A k \in DOMAIN _data_cache : _data_cache[k] \in Range(returned)
        /\ _combined_data = returned

\* A combine without a matching date, its cache read and found empty.
CacheEmptiedReached ==
    /\ Combined
    /\ crypto_data # <<>> /\ moon_data # <<>>
    /\ returned = <<>>
    /\ _data_cache = <<>>
    /\ observed # None /\ observed.call = "get_data_by_date"
    /\ observed.value = None

\* C18: whatever the reader gets from get_data_by_date or retrieve_all_data
\* while combine_data runs is what it would have got before that call or
\* what it will get after it.
C18_ReaderSeesOldOrNew ==
    observed # None =>
        \/ observed.value = observed.old
        \/ observed.value = observed.new

\* retrieve_all_data alone never returns anything else.
RetrieveAllOldOrNew ==
    (observed # None /\ observed.call = "retrieve_all_data") =>
        \/ observed.value = observed.old
        \/ observed.value = observed.new

RetrieveAllDuringCombineReached ==
    /\ observed # None
    /\ observed.call = "retrieve_all_data"
    /\ line = "255"
    /\ observed.value = observed.new
    /\ observed.old # observed.new

-----------------------------------------------------------------------------
(* Claims about anomalous closes and about the order of the result.        *)

\* C19: a point whose predecessor in date order closed at zero or below
\* has no price_change.
C19_NonPositivePredecessor ==
    ChangesComputed =>
        LET priced == SelectSeq(returned, HasCrypto)
        IN  \A i \in 2..Len(priced) :
                priced[i - 1].crypto_data.close_price <= 0
                    => priced[i].price_change = None

\* What the code does: only a predecessor that closed at exactly zero
\* leaves the point without a price_change; after a negative close the
\* formula is applied as after any other.
ZeroPredecessorOnly ==
    ChangesComputed =>
        LET priced == SelectSeq(returned, HasCrypto)
        IN  \A i \in 2..Len(priced) :
                priced[i].price_change = None
                    <=> priced[i - 1].crypto_data.close_price = 0

\* Closes -50 then 100: the second point carries -300.0.
NegativePredecessorReached ==
    /\ op = "calculate_price_changes"
    /\ Len(returned) = 2
    /\ returned[1].crypto_data.close_price = -50
    /\ returned[2].crypto_data.close_price = 100
    /\ returned[2].price_change = <<-300, 1>>

\* A point without what calculate_price_changes writes on it.
Unannotated(point) == [point EXCEPT !.price_change = None]

\* How many places of list hold point, price_change apart.
Occurrences(list, point) ==
    Cardinality({i \in DOMAIN list : Unannotated(list[i]) = Unannotated(point)})

\* C20: whatever the order of the input, the returned list ascends by date;
\* it holds the points of the caller's list, as the call left them, and when
\* every point has price data it holds each of them as often as the input
\* does; the caller's list keeps the order it had.
C20_SortedPermutation ==
    ChangesComputed =>
        /\ \A a \in 1..(Len(returned) - 1) :
              returned[a].date <= returned[a + 1].date
        /\ \A a \in DOMAIN returned : returned[a] \in Range(points_after)
        /\ (\A i \in DOMAIN points_arg : HasCrypto(points_arg[i])) =>
              /\ Len(returned) = Len(points_arg)
              /\ \A i \in DOMAIN points_arg :
                    Occurrences(returned, points_arg[i])
                        = Occurrences(points_arg, points_arg[i])
        /\ Len(points_after) = Len(points_arg)
        /\ \A i \in DOMAIN points_arg :
              Unannotated(points_after[i]) = Unannotated(points_arg[i])

\* Three points passed latest first: returned earliest first, the caller's
\* list still latest first.
C20_Witness ==
    /\ op = "calculate_price_changes"
    /\ Len(points_arg) = 3
    /\ points_arg[1].date > points_arg[2].date
    /\ points_arg[2].date > points_arg[3].date
    /\ Len(returned) = 3
    /\ returned[1].date < returned[3].date
    /\ points_after[1].date > points_after[3].date
    /\ points_after[1] = returned[3]
    /\ returned[3].price_change # None

-----------------------------------------------------------------------------
(* Claims about the analyzer's reports.                                    *)

Summarised ==
    op \in {"generate_summary_statistics", "dash_generate_summary_statistics"}

\* The texts that say the one, the other and the third thing.
NoDifferenceTexts ==
    {"No significant difference detected",
     "No significant difference in price performance between full moon and normal days."}

FullMoonBetterTexts ==
    {"Full moon days show higher average price changes",
     "Cryptocurrency tends to perform {}% better on full moon days."}

NormalBetterTexts ==
    {"Normal days show higher average price changes",
     "Cryptocurrency tends to perform {}% worse on full moon days."}

\* The interpretation is the one the three-way policy on the difference
\* fixes.
FollowsPolicy ==
    LET d == difference(results)
        said == summary.interpretation.text
    IN  IF RatLess(RatAbs(d), Rat(1, 10))
        THEN said \in NoDifferenceTexts
        ELSE IF RatLess(Zero, d)
        THEN said \in FullMoonBetterTexts
        ELSE said \in NormalBetterTexts

\* C21: for every AnalysisResults the interpretation is 'no significant
\* difference' when |difference| < 0.1, else 'full moon days outperform'
\* when difference > 0, else 'normal days outperform', and nothing else.
C21_InterpretationPolicy == Summarised => FollowsPolicy

\* What holds: the policy is followed by the single-file copy always and by
\* correlation_analyzer.py when both buckets have a point; otherwise
\* correlation_analyzer.py says 'Insufficient data'.
InterpretationWhenSufficient ==
    /\ op = "dash_generate_summary_statistics" => FollowsPolicy
    /\ op = "generate_summary_statistics" =>
          IF has_sufficient_data(results)
          THEN FollowsPolicy
          ELSE summary.interpretation.text =
                  "Insufficient data for meaningful analysis"

\* A difference of exactly 0.1 with both buckets filled: full moon better.
InterpretationAtLimitReached ==
    /\ op = "generate_summary_statistics"
    /\ has_sufficient_data(results)
    /\ difference(results) = Rat(1, 10)
    /\ summary.interpretation.text \in FullMoonBetterTexts

Handled == op = "handle_insufficient_data"

Keys == DOMAIN messages

\* C22: for every AnalysisResults with an empty bucket,
\* handle_insufficient_data returns a non-empty dictionary with a
\* 'suggestion' and an 'error' or a 'warning', the 'error' exactly when
\* total_data_points is 0.
C22_InsufficientDataDiagnostic ==
    (Handled /\ ~has_sufficient_data(results)) =>
        /\ Keys # {}
        /\ "suggestion" \in Keys
        /\ "error" \in Keys \/ "warning" \in Keys
        /\ "error" \in Keys <=> results.total_data_points = 0

\* An empty bucket in a dataset that has points: a warning, no error.
C22_Witness ==
    /\ Handled
    /\ ~has_sufficient_data(results)
    /\ results.total_data_points > 0
    /\ "warning" \in Keys /\ "suggestion" \in Keys /\ "error" \notin Keys

\* No data at all: the error.
NoDataErrorReached ==
    /\ Handled
    /\ results.total_data_points = 0
    /\ messages = NoDataMessages

\* The suggestion written for the missing full moon days.
ExpandDateRange ==
    "Dataset contains {} data points but no full moon days. Consider expanding the date range to include full moon periods."

\* C25: with data but no full moon day, the warning is 'No full moon
\* periods found in dataset' and the suggestion is the one written for that
\* condition.
C25_SuggestionOfTheWarning ==
    (Handled /\ results.total_data_points > 0 /\ results.full_moon_count = 0) =>
        /\ "warning" \in Keys /\ "suggestion" \in Keys
        /\ messages["warning"].text = "No full moon periods found in dataset"
        /\ messages["suggestion"].text = ExpandDateRange

\* What holds with data, no full moon day and at least one normal day: the
\* warning is the one of the missing full moon days and the suggestion is
\* the one of a later condition.
SuggestionOfLaterCondition ==
    (/\ Handled /\ results.total_data_points > 0
     /\ results.full_moon_count = 0 /\ results.normal_day_count > 0) =>
        /\ messages["warning"].text = "No full moon periods found in dataset"
        /\ messages["suggestion"].text =
              IF results.normal_day_count < 10
              THEN "More normal day data would improve analysis reliability."
              ELSE "Results may be less reliable with limited full moon data. Consider expanding the dataset for more robust analysis."

-----------------------------------------------------------------------------
(* CryptoDataClient.fetch_crypto_data of the single-file copy              *)
(* (crypto_moon_dashboard.py), one step per data source.                   *)

\* SUPPORTED_CRYPTOS: the CoinGecko ids.
SUPPORTED_CRYPTOS ==
    [Bitcoin |-> "bitcoin", Ethereum |-> "ethereum", Solana |-> "solana"]

\* CRYPTO_SYMBOLS
CRYPTO_SYMBOLS ==
    [Bitcoin |-> "BTCUSDT", Ethereum |-> "ETHUSDT", Solana |-> "SOLUSDT"]

\* base_prices of the two demo generators.
base_prices == [Bitcoin |-> 45000, Ethereum |-> 3000, Solana |-> 100]

\* A bar of the client: of its fields the date, the close and the symbol.
\* The close is <<price>>, or None where random.uniform draws it.
PriceBar(d, c, s) == [date |-> d, close_price |-> c, symbol |-> s]

\* datetime.now(), taken as one instant for the whole call.
Now == DateTime(20, 12, 0, 0)

\* prices[-limit:]
LastOf(prices, n) ==
    SubSeq(prices, Len(prices) - Min(n, Len(prices)) + 1, Len(prices))

\* A call that returned value.
Returned(value) == [value |-> value]

\* _fetch_from_coingecko.  response is what session.get and
\* raise_for_status made of the request: an exception, or the decoded
\* payload, whose 'prices' are pairs <<timestamp_ms, price>>.
_fetch_from_coingecko_of(name, n, response) ==
    IF "raised" \in DOMAIN response
    THEN response
    ELSE IF response.prices = <<>>
    THEN Raised("ValueError")
    ELSE LET recent == LastOf(response.prices, n)
         IN  Returned([i \in DOMAIN recent |->
                          PriceBar(recent[i][1] \div 1000, Some(recent[i][2]),
                                   CRYPTO_SYMBOLS[name])])

\* Thirty bars whatever the limit.
_generate_minimal_demo_data_thirty(name, n) ==
    [k \in 1..30 |->
        PriceBar(Now - (30 - (k - 1) - 1) * SecondsPerDay,
                 Some((base_prices[name] * (100 + (((k - 1) % 10) - 5))) \div 100),
                 SUPPORTED_CRYPTOS[name])]

\* _generate_minimal_demo_data: min(limit, 30) bars that end today, the
\* price base_price * (1 + (i % 10 - 5) * 0.01).
_generate_minimal_demo_data_of(name, n) ==
    [k \in 1..Min(n, 30) |->
        PriceBar(Now - (30 - (k - 1) - 1) * SecondsPerDay,
                 Some((base_prices[name] * (100 + (((k - 1) % 10) - 5))) \div 100),
                 SUPPORTED_CRYPTOS[name])]

\* _generate_demo_data: limit bars that end today.  failed says that the
\* body of its try raised, which its except answers with the minimal data.
_generate_demo_data_of(name, n, failed) ==
    IF failed
    THEN _generate_minimal_demo_data_of(name, n)
    ELSE [k \in 1..n |->
             PriceBar(Now - (n - (k - 1) - 1) * SecondsPerDay, None,
                      SUPPORTED_CRYPTOS[name])]

\* What the loop of fetch_crypto_data makes of one source's outcome.
Outcome(result) ==
    IF "raised" \in DOMAIN result THEN "raised"
    ELSE IF result.value = <<>> THEN "no data"
    ELSE "data"

Attempt(source_name, result) ==
    [source |-> source_name, outcome |-> Outcome(result)]

\* The payloads hold at most MaxPayload prices.
MaxPayload == 3

\* The answers to the CoinGecko request: a connection error, a timeout, an
\* HTTP error status, or a payload of n daily prices up to today.
Responses ==
    {Raised("ConnectionError"), Raised("Timeout"), Raised("HTTPError")}
        \cup {[prices |-> [i \in 1..n |->
                              <<(Now - (n - i) * SecondsPerDay) * 1000, 100 + i>>]]
              : n \in 0..MaxPayload}

FetchNames == {"Bitcoin", "Ethereum", "Solana", "Dogecoin"}

FetchLimits == {0, 1, 2, 30, 31, 1000, 1001}

InitFetch ==
    /\ crypto_name \in FetchNames
    /\ limit \in FetchLimits
    /\ tried = <<>>
    /\ fetched = None
    /\ op = "init"
    /\ CalculatorIdle /\ ProcessorIdle /\ ConfigDefault /\ SessionIdle
    /\ ReportIdle /\ DashboardIdle /\ CallerIdle

\* Lines 148-152: the checks of the arguments.
fetch_crypto_data ==
    /\ op = "init"
    /\ IF limit <= 0 \/ limit > 1000 \/ crypto_name \notin DOMAIN SUPPORTED_CRYPTOS
       THEN /\ fetched' = Raised("ValueError")
            /\ op' = "raised"
       ELSE /\ fetched' = None
            /\ op' = "fetch_crypto_data"
    /\ UNCHANGED <<crypto_name, limit, tried>>
    /\ UNCHANGED <<coreData, otherVars, reportVars, dashboardVars, held>>

\* The first turn of the loop: ("CoinGecko API", self._fetch_from_coingecko).
_fetch_from_coingecko ==
    /\ op = "fetch_crypto_data"
    /\ tried = <<>>
    /\ \E response \in Responses :
          LET data == _fetch_from_coingecko_of(crypto_name, limit, response)
          IN  /\ tried' = <<Attempt("CoinGecko API", data)>>
              /\ IF Outcome(data) = "data"
                 THEN fetched' = data /\ op' = "returned"
                 ELSE UNCHANGED <<fetched, op>>
    /\ UNCHANGED <<crypto_name, limit>>
    /\ UNCHANGED <<coreData, otherVars, reportVars, dashboardVars, held>>

\* The second turn: ("Demo Data", self._generate_demo_data), and lines
\* 173-175 after the loop when it has returned nothing.
_generate_demo_data ==
    /\ op = "fetch_crypto_data"
    /\ Len(tried) = 1
    /\ \E failed \in BOOLEAN :
          LET data == Returned(_generate_demo_data_of(crypto_name, limit, failed))
              inside == IF failed
                        THEN <<Attempt("Demo Data", Raised("Exception")),
                               Attempt("Minimal Demo Data", data)>>
                        ELSE <<Attempt("Demo Data", data)>>
              last_resort ==
                  Returned(_generate_minimal_demo_data_of(crypto_name, limit))
          IN  IF Outcome(data) = "data"
              THEN /\ tried' = tried \o inside
                   /\ fetched' = data
              ELSE /\ tried' = tried \o inside \o
                                  <<Attempt("Minimal Demo Data", last_resort)>>
                   /\ fetched' = last_resort
    /\ op' = "returned"
    /\ UNCHANGED <<crypto_name, limit>>
    /\ UNCHANGED <<coreData, otherVars, reportVars, dashboardVars, held>>

NextFetch ==
    \/ fetch_crypto_data
    \/ _fetch_from_coingecko
    \/ _generate_demo_data

\* A call that has begun goes on to its end.
SpecFetch == InitFetch /\ [][NextFetch]_vars /\ WF_vars(NextFetch)

-----------------------------------------------------------------------------
(* Claims about the price client.                                          *)

\* A supported cryptocurrency and a limit of 1..1000.
ValidArguments ==
    /\ crypto_name \in DOMAIN SUPPORTED_CRYPTOS
    /\ limit >= 1 /\ limit <= 1000

\* The sources in the order fetch_crypto_data is to try them.
SourceOrder == <<"CoinGecko API", "Demo Data", "Minimal Demo Data">>

\* The sources called are the first ones of the order, one after the
\* other, and none was called after one that had given data.
TriedInOrder ==
    /\ Len(tried) <= Len(SourceOrder)
    /\ \A i \in DOMAIN tried : tried[i].source = SourceOrder[i]
    /\ \A i \in DOMAIN tried : i < Len(tried) => tried[i].outcome # "data"

\* The call has ended with a non-empty list of at most limit bars, which
\* the last source called gave.
ReturnedBarsWithinLimit ==
    /\ "value" \in DOMAIN fetched
    /\ fetched.value # <<>>
    /\ Len(fetched.value) <= limit
    /\ tried # <<>> /\ Last(tried).outcome = "data"

FetchNeverRaises ==
    ValidArguments =>
        /\ TriedInOrder
        /\ fetched # None => ReturnedBarsWithinLimit
        /\ fetched = None => op \in {"init", "fetch_crypto_data"}

\* C23: for a supported cryptocurrency and 1 <= limit <= 1000,
\* fetch_crypto_data never raises and always returns a non-empty list of at
\* most limit bars whatever the CoinGecko request does; the sources are
\* tried in the order CoinGecko API, demo data, minimal demo data, a later
\* one only after every earlier one raised or returned no data.
C23_FetchFallsBack ==
    /\ []FetchNeverRaises
    /\ (ValidArguments /\ op = "fetch_crypto_data") ~> (op = "returned")

\* The request failed and the demo generator failed too: the thirty bars
\* of the minimal data for a limit of 31.
C23_Witness ==
    /\ ValidArguments
    /\ op = "returned"
    /\ limit = 31
    /\ Len(tried) = 3
    /\ tried[1].outcome = "raised" /\ tried[2].outcome = "raised"
    /\ Len(fetched.value) = 30

\* CoinGecko answered with more prices than asked for: the last limit ones.
CoinGeckoBarsReached ==
    /\ op = "returned"
    /\ limit = 2
    /\ Len(tried) = 1
    /\ Len(fetched.value) = 2
    /\ fetched.value[2].date = Now

-----------------------------------------------------------------------------
(* The dashboard: st.session_state under the events of a session.  Every   *)
(* script run builds a DashboardUI of its own, with its client, calculator,*)
(* processor and analyzer, so of one run only st.session_state is left to  *)
(* the next.  A run is not interleaved with another of the same session.   *)

\* SUPPORTED_CRYPTOS of data_access/bitcoin_client.py: the Bybit symbols.
BYBIT_SYMBOLS ==
    [Bitcoin |-> "BTCUSDT", Ethereum |-> "ETHUSDT", Solana |-> "SOLUSDT"]

\* crypto_options of the selectbox.
crypto_options == {"Bitcoin", "Ethereum", "Solana"}

\* The symbols the bars fetched for a cryptocurrency carry: the Bybit
\* symbol from bitcoin_client.py; from the single-file client the symbol of
\* CRYPTO_SYMBOLS on CoinGecko's bars and the CoinGecko id on the demo bars.
SymbolsOf(a, name) ==
    IF a = "modular"
    THEN {BYBIT_SYMBOLS[name]}
    ELSE {CRYPTO_SYMBOLS[name], SUPPORTED_CRYPTOS[name]}

\* _initialize_session_state: each key set unless it is there.
SessionDefaults ==
    [data_loaded |-> FALSE, combined_data |-> <<>>, analysis_results |-> None,
     error_message |-> None, last_refresh |-> None,
     selected_crypto |-> "Bitcoin"]

InitializedSessionState(state) ==
    [k \in DOMAIN SessionDefaults |->
        IF k \in DOMAIN state THEN state[k] ELSE SessionDefaults[k]]

\* The selection set without a reset of the data.
SelectionChangedKeepingData(state, selected) ==
    Put(state, "selected_crypto", selected)

\* Lines 419-424 of _render_controls: the selection differs from the one
\* in the session.
SelectionChanged(state, selected) ==
    Put(Put(Put(Put(Put(state, "selected_crypto", selected),
                    "data_loaded", FALSE),
                "combined_data", <<>>),
            "analysis_results", None),
        "error_message", None)

\* An except branch that drops what was loaded.
ExceptBranchResetting(state, a, e) ==
    Put(Put(Put(Put(state, "error_message",
                    Text("Failed to refresh data: {}", Some(e))),
                "data_loaded", FALSE),
            "combined_data", <<>>),
        "analysis_results", None)

\* The except branch of _handle_refresh: the message of the exception put
\* into error_message (in the single-file copy inside a longer text, or
\* replaced by a fixed one when it names 403, a timeout or a connection);
\* data_loaded is written only when it is False, with False.
ExceptBranch(state, a, e) ==
    Put(Put(state, "error_message",
            IF a = "modular"
            THEN Text("Failed to refresh data: {}", Some(e))
            ELSE Text("**Data Fetch Error** Failed to refresh data: {} Please try again in a few moments.",
                      Some(e))),
        "data_loaded", IF ~state.data_loaded THEN FALSE ELSE state.data_loaded)

\* The dates without the first one.
DatesButFirst(bars) == [i \in 1..(Len(bars) - 1) |-> Some(bars[i + 1].date)]

\* dates = [data.date for data in crypto_data]
DatesOf(bars) == [i \in DOMAIN bars |-> Some(bars[i].date)]

\* calculate_price_changes(combined_data) of the app's DataProcessor, as
\* returned.
AnnotatedData(a, combined) ==
    IF combined = <<>>
    THEN <<>>
    ELSE IF a = "modular"
    THEN Values(ProcessedData(SortByDate(Objects(combined)), None))
    ELSE Values(DashSortedData(SortByDate(Objects(combined)), None))

\* analyze_correlation of the app's CorrelationAnalyzer.
AnalysisOf(a, annotated) ==
    IF a = "modular"
    THEN analyze_correlation_of(annotated)
    ELSE dash_analyze_correlation_of(annotated)

\* The locals of _handle_refresh once the provider has returned bars and
\* the calculator moon_data.
Locals(a, bars, moon) ==
    LET combined == IF bars = <<>> \/ moon = <<>>
                    THEN <<>>
                    ELSE SortedPoints(bars, moon)
        annotated == AnnotatedData(a, combined)
    IN  [crypto_data |-> bars,
         dates |-> DatesOf(bars),
         moon_data |-> moon,
         combined_data |-> combined,
         combined_data_with_changes |-> annotated,
         analysis_results |-> AnalysisOf(a, annotated)]

\* The list put into the session without its price changes.
StoredDataUnannotated(l) == l.combined_data

\* st.session_state.combined_data = combined_data_with_changes
StoredData(l) == l.combined_data_with_changes

\* What is kept of a refresh: what the provider did, the dates of its bars
\* and the dates given to the calculator, the lengths of the lists, whether
\* the analyzer was called, and whether an exception left the handler.
RefreshRecord(provider, l, analyzed) ==
    [provider |-> provider,
     bar_dates |-> [i \in DOMAIN l.crypto_data |-> Some(l.crypto_data[i].date)],
     dates |-> l.dates,
     moon_data |-> Len(l.moon_data),
     combined_data |-> Len(l.combined_data),
     combined_data_with_changes |-> Len(l.combined_data_with_changes),
     analyzed |-> analyzed,
     propagated |-> FALSE]

NoLocals ==
    [crypto_data |-> <<>>, dates |-> <<>>, moon_data |-> <<>>,
     combined_data |-> <<>>, combined_data_with_changes |-> <<>>,
     analysis_results |-> None]

\* _handle_refresh: the session after it and the record of it.  result is
\* what fetch_crypto_data did, moon what the calculator returned for the
\* dates of the bars.
RefreshOf(state, a, result, moon) ==
    LET cleared == Put(state, "error_message", None)
        selected == state.selected_crypto
    IN  IF "raised" \in DOMAIN result
        THEN [state |-> ExceptBranch(cleared, a, result.raised),
              refresh |-> RefreshRecord("raised", NoLocals, FALSE)]
        ELSE IF result.value = <<>>
        THEN [state |-> Put(cleared, "error_message",
                            Text("No {} data received from API", Some(selected))),
              refresh |-> RefreshRecord("no data", NoLocals, FALSE)]
        ELSE LET l == Locals(a, result.value, moon)
             IN  IF l.moon_data = <<>>
                 THEN [state |-> Put(cleared, "error_message",
                                     Text("Failed to calculate moon phases", None)),
                       refresh |-> RefreshRecord("data", l, FALSE)]
                 ELSE IF l.combined_data = <<>>
                 THEN [state |-> Put(cleared, "error_message",
                                     Text("Failed to combine {} and moon data",
                                          Some(selected))),
                       refresh |-> RefreshRecord("data", l, FALSE)]
                 ELSE IF "raised" \in DOMAIN l.analysis_results
                 THEN [state |-> ExceptBranch(cleared, a, l.analysis_results.raised),
                       refresh |-> RefreshRecord("data", l, TRUE)]
                 ELSE [state |->
                          Put(Put(Put(Put(cleared, "combined_data", StoredData(l)),
                                      "analysis_results", l.analysis_results),
                                  "data_loaded", TRUE),
                              "last_refresh", Some(Now)),
                       refresh |-> RefreshRecord("data", l, TRUE)]

\* The provider returns at most MaxRefreshLen bars.
MaxRefreshLen == 2

\* A bar of 1 January, one of 2 January and one of the day of the full moon.
ProviderBars(symbol) ==
    {PriceBar(DateTime(1, 0, 0, 0), 100, symbol),
     PriceBar(DateTime(2, 0, 0, 0), 110, symbol),
     PriceBar(HalfCycleDate, 121, symbol)}

\* The lists of bars of a cryptocurrency, oldest first.
ProviderLists(a, name) ==
    UNION {{list \in SeqsUpTo(ProviderBars(symbol), MaxRefreshLen) :
               list # <<>> /\ list = SortByDate(list)}
           : symbol \in SymbolsOf(a, name)}

\* What fetch_crypto_data may do: the client of bitcoin_client.py raises,
\* returns no bar or returns bars; the client of the single-file copy
\* always returns bars.
ProviderResults(a, name) ==
    {Returned(list) : list \in ProviderLists(a, name)}
        \cup (IF a = "modular"
              THEN {Raised("RequestException"), Returned(<<>>)}
              ELSE {})

\* Illuminations ephem reports in a refresh: a day that is not of the full
\* moon and one that is.
DashboardPhases == {50, 100}

\* calculate_moon_phases_for_dates(dates) of the app's calculator.
MoonDataFor(a, ds) ==
    IF a = "modular"
    THEN {MoonPhasesForDates(ds)}
    ELSE {DashMoonPhasesForDates(ds, moon_phases) :
             moon_phases \in [DOMAIN ds -> DashboardPhases]}

InitDashboard ==
    /\ session_state = <<>>
    /\ refresh = None
    /\ app \in {"modular", "single-file"}
    /\ op = "init"
    /\ CalculatorIdle /\ ProcessorIdle /\ ConfigDefault /\ SessionIdle
    /\ ReportIdle /\ FetchIdle /\ CallerIdle

Initialised == "selected_crypto" \in DOMAIN session_state

\* DashboardUI.__init__ of a script run.
_initialize_session_state ==
    /\ session_state' = InitializedSessionState(session_state)
    /\ op' = "_initialize_session_state"
    /\ UNCHANGED <<refresh, app>>
    /\ UNCHANGED <<coreData, otherVars, reportVars, fetchVars, held>>

\* _render_controls of a run in which the selectbox has a new value.
_render_controls ==
    /\ Initialised
    /\ \E selected \in crypto_options \ {session_state.selected_crypto} :
          session_state' = SelectionChanged(session_state, selected)
    /\ op' = "_render_controls"
    /\ UNCHANGED <<refresh, app>>
    /\ UNCHANGED <<coreData, otherVars, reportVars, fetchVars, held>>

\* The button pressed: _handle_refresh.
_handle_refresh ==
    /\ Initialised
    /\ \E result \in ProviderResults(app, session_state.selected_crypto) :
          \E moon \in MoonDataFor(app, IF "raised" \in DOMAIN result
                                       THEN <<>>
                                       ELSE DatesOf(result.value)) :
             LET after == RefreshOf(session_state, app, result, moon)
             IN  /\ session_state' = after.state
                 /\ refresh' = after.refresh
    /\ op' = "_handle_refresh"
    /\ UNCHANGED app
    /\ UNCHANGED <<coreData, otherVars, reportVars, fetchVars, held>>

NextDashboard ==
    \/ _initialize_session_state
    \/ _render_controls
    \/ _handle_refresh

SpecDashboard == InitDashboard /\ [][NextDashboard]_vars

-----------------------------------------------------------------------------
(* Claims about the dashboard.                                             *)

\* C24: when the price provider raises or returns no bars in a refresh,
\* nothing is propagated, the analyzer is not called, error_message is set,
\* and the combined_data, analysis_results and data_loaded of the session
\* stay as they were.
C24_FailedFetchKeepsData ==
    [][(/\ op' = "_handle_refresh"
        /\ refresh'.provider \in {"raised", "no data"}) =>
           /\ ~refresh'.propagated
           /\ ~refresh'.analyzed
           /\ session_state'.error_message # None
           /\ session_state'.combined_data = session_state.combined_data
           /\ session_state'.analysis_results = session_state.analysis_results
           /\ session_state'.data_loaded = session_state.data_loaded]_vars

\* The provider raised in a session that had data loaded.
C24_Witness ==
    /\ op = "_handle_refresh"
    /\ refresh.provider = "raised"
    /\ session_state.data_loaded
    /\ session_state.combined_data # <<>>
    /\ session_state.error_message # None

\* The provider returned no bar in a session that had data loaded.
NoBarsWithDataLoadedReached ==
    /\ op = "_handle_refresh"
    /\ refresh.provider = "no data"
    /\ session_state.data_loaded
    /\ session_state.error_message.text = "No {} data received from API"

\* C26: in every state of a session, data_loaded implies that combined_data
\* is not empty, that analysis_results is set, and that analysis_results is
\* the analysis of the stored combined_data.
C26_LoadedDataAnalysed ==
    (Initialised /\ session_state.data_loaded) =>
        /\ session_state.combined_data # <<>>
        /\ session_state.analysis_results # None
        /\ session_state.analysis_results =
              AnalysisOf(app, session_state.combined_data)

\* A refresh of dashboard_ui.py that loaded a normal day and the day of
\* the full moon; the first of the two has no price change.
C26_Witness ==
    /\ op = "_handle_refresh"
    /\ app = "modular"
    /\ session_state.data_loaded
    /\ Len(session_state.combined_data) = 2
    /\ session_state.analysis_results.full_moon_count = 1
    /\ session_state.analysis_results.total_data_points = 1

\* Every loaded point is of a bar fetched for the selected cryptocurrency.
LoadedForSelection ==
    \A i \in DOMAIN session_state.combined_data :
        session_state.combined_data[i].crypto_data.symbol
            \in SymbolsOf(app, session_state.selected_crypto)

\* C27: whenever data_loaded is true the loaded data was fetched for the
\* selected cryptocurrency, and a change of the selection leaves
\* data_loaded false, combined_data empty, analysis_results and
\* error_message none.
C27_DataOfSelection ==
    Initialised =>
        /\ session_state.data_loaded => LoadedForSelection
        /\ op = "_render_controls" =>
              /\ ~session_state.data_loaded
              /\ session_state.combined_data = <<>>
              /\ session_state.analysis_results = None
              /\ session_state.error_message = None

\* The selection changed after a refresh had loaded data.
C27_Witness ==
    /\ op = "_render_controls"
    /\ refresh # None
    /\ refresh.analyzed
    /\ session_state.selected_crypto = "Ethereum"
    /\ ~session_state.data_loaded

\* Data loaded for the new selection.
LoadedAfterSelectionReached ==
    /\ op = "_handle_refresh"
    /\ session_state.selected_crypto = "Solana"
    /\ session_state.data_loaded
    /\ LoadedForSelection

\* C28: in a refresh the moon phases are computed for the dates of the
\* fetched bars, and when every phase computation succeeds the combined
\* list and the annotated list given to the analyzer are as long as the
\* fetched list.
C28_NoBarDropped ==
    (refresh # None /\ refresh.provider = "data") =>
        /\ refresh.dates = refresh.bar_dates
        /\ refresh.moon_data = Len(refresh.dates) =>
              /\ refresh.combined_data = Len(refresh.bar_dates)
              /\ refresh.combined_data_with_changes = Len(refresh.bar_dates)
              /\ refresh.analyzed

\* Two bars of one day fetched by dashboard_ui.py, both combined.
C28_Witness ==
    /\ op = "_handle_refresh"
    /\ app = "modular"
    /\ refresh.provider = "data"
    /\ Len(refresh.bar_dates) = 2
    /\ refresh.bar_dates[1] = refresh.bar_dates[2]
    /\ refresh.moon_data = 2
    /\ refresh.combined_data = 2
    /\ refresh.combined_data_with_changes = 2

-----------------------------------------------------------------------------
(* One DataProcessor (data_processor.py) called again and again, and the   *)
(* lists it returned.  A list is an object: self._combined_data refers to  *)
(* one, and the caller to those it was given.  A point is an object too,   *)
(* named by an id; lists that hold the same point see what is written to   *)
(* it.                                                                     *)

\* The points of a list created by the n-th call that returned one.
Created(points, n) == [i \in DOMAIN points |-> WithId(points[i], <<n, i>>)]

\* A list the caller holds: the points it had when it was returned, the
\* points it has now, and whether self._combined_data refers to it.
HeldList(points, is_stored) ==
    [as_returned |-> points, now |-> points, stored |-> is_stored]

\* self._combined_data = ... : the field refers to another list.
Rebound(lists) == [i \in DOMAIN lists |-> [lists[i] EXCEPT !.stored = FALSE]]

\* self._combined_data.clear(): the list the field refers to is emptied,
\* whoever else holds it.
ClearedInPlace(lists) ==
    [i \in DOMAIN lists |->
        IF lists[i].stored THEN [lists[i] EXCEPT !.now = <<>>] ELSE lists[i]]

\* data_point.price_change = ... : the points of processed as every list
\* that holds them sees them.
Annotated(lists, processed) ==
    LET Seen(point) ==
            IF \E j \in DOMAIN processed : processed[j].id = point.id
            THEN processed[CHOOSE j \in DOMAIN processed :
                               processed[j].id = point.id]
            ELSE point
    IN  [i \in DOMAIN lists |->
            [lists[i] EXCEPT !.now = [k \in DOMAIN lists[i].now |->
                                         Seen(lists[i].now[k])]]]

\* The caller holds at most MaxHeld lists.
MaxHeld == 2

\* The bars given to combine_data: none, one, two of one day with the later
\* first, two of two days.
ProcessorCrypto ==
    {<<>>,
     <<CryptoPriceData(DateTime(1, 0, 0, 0), 100)>>,
     <<CryptoPriceData(DateTime(1, 12, 0, 0), 110),
       CryptoPriceData(DateTime(1, 0, 0, 0), 100)>>,
     <<CryptoPriceData(DateTime(1, 0, 0, 0), 100),
       CryptoPriceData(DateTime(2, 0, 0, 0), 110)>>}

ProcessorMoon ==
    {<<>>,
     <<MoonPhaseData(DateTime(1, 0, 0, 0), Pct(10)),
       MoonPhaseData(DateTime(2, 0, 0, 0), Pct(99))>>}

\* A point the caller made itself.
OwnPoint(k, d, close) ==
    WithId(CombinedDataPoint(d, CryptoPriceData(d, close),
                             MoonPhaseData(d, Pct(10)), None),
           <<0, k>>)

\* The lists of its own the caller gives to store_data and to
\* calculate_price_changes: none, two points of one day with the later
\* first, one point of another day.
OwnLists ==
    {<<>>,
     <<OwnPoint(1, DateTime(1, 12, 0, 0), 110),
       OwnPoint(2, DateTime(1, 0, 0, 0), 100)>>,
     <<OwnPoint(3, DateTime(3, 0, 0, 0), 120)>>}

\* The lists the caller can pass: its own and those it holds.
CallerLists == OwnLists \cup {held[i].now : i \in DOMAIN held}

InitProcessor ==
    /\ CalculatorIdle
    /\ ProcessorIdle
    /\ ConfigDefault
    /\ SessionIdle
    /\ ReportIdle /\ FetchIdle /\ DashboardIdle
    /\ held = <<>>
    /\ op = "init"

\* combine_data(cd, md) on the processor as it is.
combine_data_again ==
    /\ Len(held) < MaxHeld
    /\ \E cd \in ProcessorCrypto, md \in ProcessorMoon :
          /\ crypto_data' = cd
          /\ moon_data' = md
          /\ IF cd = <<>> \/ md = <<>>
             THEN /\ returned' = <<>>
                  /\ held' = Append(held, HeldList(<<>>, FALSE))
                  /\ UNCHANGED <<_combined_data, _data_cache>>
             ELSE LET sorted_points ==
                          Created(SortedPoints(cd, md), Len(held) + 1)
                  IN  /\ _combined_data' = sorted_points
                      /\ _data_cache' = UpdateCache(sorted_points)
                      /\ returned' = sorted_points
                      /\ held' = Append(Rebound(held),
                                        HeldList(sorted_points, TRUE))
    /\ op' = "combine_data"
    /\ UNCHANGED <<date_arg, phase_data, points_arg, results>>
    /\ UNCHANGED <<otherVars, reportVars, fetchVars, dashboardVars>>

\* calculate_price_changes(combined_data): None for the stored data, else
\* a list of the caller.
calculate_price_changes_again ==
    /\ Len(held) < MaxHeld
    /\ \E combined_data \in {None} \cup {Some(list) : list \in CallerLists} :
          LET data_to_process == IF combined_data # None
                                 THEN combined_data[1]
                                 ELSE _combined_data
              processed_data == ProcessedData(SortByDate(data_to_process), None)
          IN  /\ points_arg' = data_to_process
              /\ IF data_to_process = <<>>
                 THEN /\ returned' = <<>>
                      /\ held' = Append(held, HeldList(<<>>, FALSE))
                      /\ UNCHANGED <<_combined_data, _data_cache>>
                 ELSE /\ _combined_data' = processed_data
                      /\ _data_cache' = UpdateCache(processed_data)
                      /\ returned' = processed_data
                      /\ held' = Append(Annotated(Rebound(held), processed_data),
                                        HeldList(processed_data, TRUE))
    /\ op' = "calculate_price_changes"
    /\ UNCHANGED <<date_arg, phase_data, crypto_data, moon_data, results>>
    /\ UNCHANGED <<otherVars, reportVars, fetchVars, dashboardVars>>

\* store_data(combined_data): a copy of the list is stored, the cache is
\* filled from the list as given.
store_data ==
    /\ \E combined_data \in CallerLists :
          /\ points_arg' = combined_data
          /\ IF combined_data = <<>>
             THEN UNCHANGED <<_combined_data, _data_cache, held>>
             ELSE /\ _combined_data' = combined_data
                  /\ _data_cache' = UpdateCache(combined_data)
                  /\ held' = Rebound(held)
    /\ op' = "store_data"
    /\ UNCHANGED <<date_arg, phase_data, crypto_data, moon_data, returned,
                   results>>
    /\ UNCHANGED <<otherVars, reportVars, fetchVars, dashboardVars>>

\* clear_data(): the stored list and the cache are emptied where they are.
clear_data ==
    /\ _combined_data' = <<>>
    /\ _data_cache' = <<>>
    /\ held' = ClearedInPlace(held)
    /\ op' = "clear_data"
    /\ UNCHANGED <<date_arg, phase_data, crypto_data, moon_data, points_arg,
                   returned, results>>
    /\ UNCHANGED <<otherVars, reportVars, fetchVars, dashboardVars>>

NextProcessor ==
    \/ combine_data_again
    \/ calculate_price_changes_again
    \/ store_data
    \/ clear_data

SpecProcessor == InitProcessor /\ [][NextProcessor]_vars

-----------------------------------------------------------------------------
(* Claims about the processor's stored list, its cache and the lists it    *)
(* returned.                                                               *)

\* The list has the points it had when it was returned, in their order.
SameElements(list) ==
    /\ Len(list.now) = Len(list.as_returned)
    /\ \A k \in DOMAIN list.now : list.now[k].id = list.as_returned[k].id

\* C29: a list that combine_data or calculate_price_changes returned has,
\* after a later clear_data, store_data or combine_data on the processor,
\* the length and the elements it was returned with.
C29_ReturnedListKept ==
    op \in {"clear_data", "store_data", "combine_data"} =>
        \A i \in DOMAIN held : SameElements(held[i])

\* What holds: a returned list changes only by being emptied, which
\* clear_data does to the list self._combined_data refers to; store_data
\* and combine_data leave every returned list as it is.
ReturnedListKeptOrEmptied ==
    \A i \in DOMAIN held : SameElements(held[i]) \/ held[i].now = <<>>

\* clear_data has emptied a list the caller was given by combine_data.
ReturnedListEmptiedReached ==
    /\ op = "clear_data"
    /\ \E i \in DOMAIN held :
          /\ Len(held[i].as_returned) = 2
          /\ held[i].now = <<>>

\* The calendar dates of the stored points.
StoredDays == {DateKey(_combined_data[i].date) : i \in DOMAIN _combined_data}

\* The calendar dates a reader asks for.
ProbeDays == {DateOf(DateTime(d, 0, 0, 0)) : d \in 1..4}

\* C30: after any calls of combine_data, calculate_price_changes,
\* store_data and clear_data the cache keys are the calendar dates of the
\* stored points, each cached value is a stored point of its date, the
\* chronologically last of that date, and get_data_by_date returns None for
\* a date no stored point has.
C30_CacheAgreesWithStored ==
    /\ DOMAIN _data_cache = StoredDays
    /\ \A d \in DOMAIN _data_cache :
          /\ \E i \in DOMAIN _combined_data : _combined_data[i] = _data_cache[d]
          /\ DateKey(_data_cache[d].date) = d
          /\ \A i \in DOMAIN _combined_data :
                DateKey(_combined_data[i].date) = d =>
                    _combined_data[i].date <= _data_cache[d].date
    /\ \A d \in ProbeDays \ StoredDays : Get(_data_cache, d) = None

\* What holds: the same with the last stored point of the date, in the
\* order of the stored list, in place of the chronologically last.
CacheHoldsLastStored ==
    /\ DOMAIN _data_cache = StoredDays
    /\ \A d \in DOMAIN _data_cache :
          LET last == MaxOf({i \in DOMAIN _combined_data :
                                DateKey(_combined_data[i].date) = d})
          IN  _data_cache[d] = _combined_data[last]
    /\ \A d \in ProbeDays \ StoredDays : Get(_data_cache, d) = None

\* store_data was given two points of one day, the later one first.
UnsortedStoredReached ==
    /\ op = "store_data"
    /\ Len(_combined_data) = 2
    /\ _combined_data[1].date > _combined_data[2].date
    /\ _data_cache[DateKey(_combined_data[1].date)] = _combined_data[2]

=============================================================================
